---------------------------- MODULE Spec2Model ----------------------------
(***************************************************************************)
(* Metered WASM sandbox of arbitrator (stylus / jit / user-host): the      *)
(* ink/gas meter, the host-call dispatchers and the execution adapters.    *)
(*                                                                         *)
(* u64 quantities are modelled as naturals capped at U64Max with the       *)
(* saturating operations the code uses; the width is scaled down so that   *)
(* saturation is reachable by the model checker.                           *)
(***************************************************************************)
EXTENDS Integers, Sequences, FiniteSets, TLC

(***************************************************************************)
(* Bounds of the model                                                     *)
(***************************************************************************)
\* largest value of the (scaled) u64 type
U64Max ==
    1073741823

\* number of bytes of the program's linear memory
MemSize ==
    72

\* host calls and instrumented steps a modelled run may make
MaxSteps ==
    2

\* return_data_size calls a program may still make once its MaxSteps operations
\* are used up, when the last of them was return_data_size
MaxRepeats ==
    1

(***************************************************************************)
(* Integer helpers (u64::saturating_mul, saturating_sub, min)              *)
(***************************************************************************)
saturating_mul(a, b) ==
    IF a = 0 \/ b = 0 THEN 0
    ELSE IF a > U64Max \div b THEN U64Max
    ELSE a * b

saturating_sub(a, b) ==
    IF a < b THEN 0 ELSE a - b

\* the larger of the two
Min_takes_larger(a, b) ==
    IF a < b THEN b ELSE a

Min(a, b) ==
    IF a < b THEN a ELSE b

(***************************************************************************)
(* PricingParams: the fixed-point ink price (prover/programs/config.rs is  *)
(* not part of the sources at hand; modelled from the specification).      *)
(***************************************************************************)
\* one-to-one ink price, in basis points
INK_PRICE_UNIT ==
    10000

\* gas_to_ink rounding the ink bought up instead of down
gas_to_ink_up(pricing, gas) ==
    (saturating_mul(gas, INK_PRICE_UNIT) + pricing.ink_price - 1) \div pricing.ink_price

gas_to_ink(pricing, gas) ==
    saturating_mul(gas, INK_PRICE_UNIT) \div pricing.ink_price

ink_to_gas(pricing, ink) ==
    saturating_mul(ink, pricing.ink_price) \div INK_PRICE_UNIT

(***************************************************************************)
(* MachineMeter and the meter of a native instance (stylus/src/env.rs)     *)
(***************************************************************************)
Ready(ink) ==
    [tag |-> "Ready", ink |-> ink]

Exhausted ==
    [tag |-> "Exhausted", ink |-> 0]

\* impl From<MachineMeter> for u64
meter_into(mm) ==
    IF mm.tag = "Ready" THEN mm.ink ELSE 0

\* MeterData: the two globals of the instrumented module
MeterData(ink, status) ==
    [ink_left |-> ink, ink_status |-> status]

ink_left(md) ==
    IF md.ink_status = 0 THEN Ready(md.ink_left) ELSE Exhausted

set_ink(md, ink) ==
    MeterData(ink, 0)

Ok(md) ==
    [m |-> md, ok |-> TRUE]

out_of_ink(md) ==
    [m |-> md, ok |-> FALSE]

\* buy_ink forgetting the status check: an exhausted meter is reset
buy_ink_resets(md, ink) ==
    IF md.ink_left < ink THEN out_of_ink(md)
    ELSE Ok(set_ink(md, md.ink_left - ink))

\* buy_ink with the subtraction turned into an addition
buy_ink_adds(md, ink) ==
    IF ink_left(md).tag # "Ready" THEN out_of_ink(md)
    ELSE IF ink_left(md).ink < ink THEN out_of_ink(md)
    ELSE Ok(set_ink(md, ink_left(md).ink + ink))

\* buy_ink taking what is left instead of refusing
buy_ink_saturates(md, ink) ==
    IF ink_left(md).tag # "Ready" THEN out_of_ink(md)
    ELSE Ok(set_ink(md, saturating_sub(ink_left(md).ink, ink)))

buy_ink(md, ink) ==
    IF ink_left(md).tag # "Ready" THEN out_of_ink(md)
    ELSE IF ink_left(md).ink < ink THEN out_of_ink(md)
    ELSE Ok(set_ink(md, ink_left(md).ink - ink))

\* gas handed out without payment
buy_gas_free(pricing, md, gas) ==
    Ok(md)

buy_gas(pricing, md, gas) ==
    buy_ink(md, gas_to_ink(pricing, gas))

\* require_gas charging what it checks
require_gas_buys(pricing, md, gas) ==
    buy_gas(pricing, md, gas)

\* a sufficiency check that lets everything through
require_gas_passes(pricing, md, gas) ==
    Ok(md)

require_gas(pricing, md, gas) ==
    IF ink_left(md).tag # "Ready" THEN out_of_ink(md)
    ELSE IF ink_left(md).ink < gas_to_ink(pricing, gas) THEN out_of_ink(md)
    ELSE Ok(md)

gas_left(pricing, md) ==
    ink_to_gas(pricing, meter_into(ink_left(md)))

\* evm::COPY_WORD_GAS (arbutil/evm; not among the sources)
COPY_WORD_GAS ==
    3

pay_for_evm_copy(pricing, md, bytes) ==
    buy_gas(pricing, md, saturating_mul(saturating_mul(bytes, 31) \div 32, COPY_WORD_GAS))

\* The instrumentation of the compiled module: a block costing `ink` either
\* pays for itself or sets the status global and traps.
instrumented_op(md, ink) ==
    IF md.ink_status # 0 THEN out_of_ink(md)
    ELSE IF md.ink_left < ink THEN out_of_ink(MeterData(md.ink_left, 1))
    ELSE Ok(MeterData(md.ink_left - ink, 0))

(***************************************************************************)
(* The meter of a program run by the replay machine (MeteredMachine and    *)
(* GasMeteredMachine of prover/programs/meter.rs, implemented by Program   *)
(* in user-host/src/program.rs).  Neither file is among the sources; the   *)
(* operations follow the specification: a failed charge leaves the meter   *)
(* exhausted, a sufficiency check charges nothing.                         *)
(***************************************************************************)
MeteredMachine_buy_ink(md, ink) ==
    IF ink_left(md).tag # "Ready" THEN out_of_ink(md)
    ELSE IF ink_left(md).ink < ink THEN out_of_ink(MeterData(md.ink_left, 1))
    ELSE Ok(set_ink(md, ink_left(md).ink - ink))

MeteredMachine_buy_gas(pricing, md, gas) ==
    MeteredMachine_buy_ink(md, gas_to_ink(pricing, gas))

MeteredMachine_require_gas(pricing, md, gas) ==
    IF ink_left(md).tag # "Ready" THEN out_of_ink(md)
    ELSE IF ink_left(md).ink < gas_to_ink(pricing, gas) THEN out_of_ink(md)
    ELSE Ok(md)

\* pricing policy of the replay host (arbutil/pricing)
HOSTIO_INK ==
    100

PTR_INK ==
    10

EVM_API_INK ==
    50

READ_BYTE_INK ==
    2

WRITE_BYTE_INK ==
    1

KECCAK_BASE_INK ==
    120

KECCAK_WORD_INK ==
    20

read_price(bytes) ==
    saturating_mul(bytes, READ_BYTE_INK)

write_price(bytes) ==
    saturating_mul(bytes, WRITE_BYTE_INK)

keccak_price(bytes) ==
    KECCAK_BASE_INK + saturating_mul((bytes + 31) \div 32, KECCAK_WORD_INK)

\* EVM gas schedule (arbutil/evm)
SSTORE_SENTRY_GAS ==
    2300

LOG_TOPIC_GAS ==
    375

LOG_DATA_GAS ==
    8

\* GASPRICE_GAS, GASLEFT_GAS, BASEFEE_GAS, ... : the quick-step opcodes
GAS_QUICK_STEP ==
    2

evm_log_gas(topics, data_len) ==
    (1 + topics) * LOG_TOPIC_GAS + data_len * LOG_DATA_GAS

(***************************************************************************)
(* Linear memory of the program: a sequence of MemSize bytes, addressed    *)
(* from 0.  Accesses are bounds checked as a whole.                        *)
(***************************************************************************)
Rep(b, n) ==
    [i \in 1..n |-> b]

read_slice(mem, ptr, len) ==
    IF ptr + len <= Len(mem)
    THEN [ok |-> TRUE, data |-> SubSeq(mem, ptr + 1, ptr + len)]
    ELSE [ok |-> FALSE, data |-> <<>>]

\* a write that leaves out the last byte of the source
write_slice_short(mem, ptr, src) ==
    IF ptr + Len(src) <= Len(mem)
    THEN [ok |-> TRUE,
          mem |-> [i \in 1..Len(mem) |->
                      IF i > ptr /\ i < ptr + Len(src) THEN src[i - ptr] ELSE mem[i]]]
    ELSE [ok |-> FALSE, mem |-> mem]

write_slice(mem, ptr, src) ==
    IF ptr + Len(src) <= Len(mem)
    THEN [ok |-> TRUE,
          mem |-> [i \in 1..Len(mem) |->
                      IF i > ptr /\ i <= ptr + Len(src) THEN src[i - ptr] ELSE mem[i]]]
    ELSE [ok |-> FALSE, mem |-> mem]

\* little-endian bytes of a u32
le_bytes(x) ==
    <<x % 256, (x \div 256) % 256, (x \div 65536) % 256, (x \div 16777216) % 256>>

write_u32(mem, ptr, x) ==
    write_slice(mem, ptr, le_bytes(x))

(***************************************************************************)
(* Host calls as step lists.  A host function is the sequence of steps its *)
(* body performs; Exec runs them in order and stops at the first failing   *)
(* step, as the `?` operator (or unwrap) does.  Every step leaves an event *)
(* so that the order of charges, memory accesses and client calls of one   *)
(* host call can be observed.                                              *)
(***************************************************************************)
S(op, x, y) ==
    [op |-> op, x |-> x, y |-> y]

Event(k, ok, x) ==
    [k |-> k, ok |-> ok, x |-> x]

\* the execution context of one host call
Ctx(md, mem, outs, ret_len) ==
    [m |-> md, mem |-> mem, outs |-> outs, ret_len |-> ret_len,
     ev |-> <<>>, err |-> "", fwd |-> 0, at_call |-> md, data |-> <<>>, ret |-> 0]

\* the return-data-length cell left as it was
set_return_data_len_keeps(c, len) ==
    c

\* set_return_data_len / *evm_return_data_len() = len
set_return_data_len(c, len) ==
    [c EXCEPT !.ret_len = len]

\* a length taken from the meter instead of the cell
return_data_len_meter(c) ==
    c.m.ink_left

\* return_data_len() / *evm_return_data_len()
return_data_len(c) ==
    c.ret_len

\* no topic data rejected
bad_topic_data_never(len, topics) ==
    FALSE

\* the argument check of emit_log
bad_topic_data(len, topics) ==
    len < topics * 32 \/ topics > 4

\* the meter operations of the engine running the call
EngineBuyInk(e, md, ink) ==
    IF e = "native" THEN buy_ink(md, ink) ELSE MeteredMachine_buy_ink(md, ink)

EngineBuyGas(e, pricing, md, gas) ==
    IF e = "native" THEN buy_gas(pricing, md, gas)
    ELSE MeteredMachine_buy_gas(pricing, md, gas)

EngineRequireGas(e, pricing, md, gas) ==
    IF e = "native" THEN require_gas(pricing, md, gas)
    ELSE MeteredMachine_require_gas(pricing, md, gas)

Charged(c, k, r, x) ==
    [c EXCEPT !.m = r.m,
              !.ev = Append(@, Event(k, r.ok, x)),
              !.err = IF r.ok THEN "" ELSE "OutOfInk"]

Fail(c, k, kind, x) ==
    [c EXCEPT !.ev = Append(@, Event(k, FALSE, x)), !.err = kind]

Pass(c, k, x) ==
    [c EXCEPT !.ev = Append(@, Event(k, TRUE, x))]

Wrote(c, w, ptr) ==
    IF w.ok THEN [Pass(c, "write", ptr) EXCEPT !.mem = w.mem]
    ELSE Fail(c, "write", "Memory", ptr)

\* the bytes get_return_data(offset, size) hands back for return data of
\* length len
return_data_part(len, offset, size) ==
    Rep(170, Min(size, saturating_sub(len, offset)))

Step(e, cfg, r, c, s) ==
    CASE s.op = "overhead" -> Charged(c, "overhead", EngineBuyInk(e, c.m, s.x), s.x)
      [] s.op = "buy_ink" -> Charged(c, "charge", EngineBuyInk(e, c.m, s.x), s.x)
      [] s.op = "buy_gas" ->
            Charged(c, "charge", EngineBuyGas(e, cfg, c.m, s.x), gas_to_ink(cfg, s.x))
      [] s.op = "buy_cost" ->
            Charged(c, "cost", EngineBuyGas(e, cfg, c.m, r.cost), gas_to_ink(cfg, r.cost))
      [] s.op = "require_gas" ->
            Charged(c, "require", EngineRequireGas(e, cfg, c.m, s.x), s.x)
      [] s.op = "evm_copy" ->
            Charged(c, "charge",
                    IF e = "native" THEN pay_for_evm_copy(cfg, c.m, s.x)
                    ELSE MeteredMachine_buy_gas(cfg, c.m,
                             saturating_mul(saturating_mul(s.x, 31) \div 32, COPY_WORD_GAS)),
                    s.x)
      [] s.op = "evm_copy_ret" ->
            Charged(c, "charge",
                    IF e = "native" THEN pay_for_evm_copy(cfg, c.m, return_data_len(c))
                    ELSE MeteredMachine_buy_gas(cfg, c.m,
                             saturating_mul(saturating_mul(return_data_len(c), 31) \div 32,
                                            COPY_WORD_GAS)),
                    return_data_len(c))
      [] s.op = "check" ->
            IF s.x THEN Pass(c, "check", 0) ELSE Fail(c, "check", s.y, 0)
      [] s.op = "read" ->
            IF read_slice(c.mem, s.x, s.y).ok
            THEN [Pass(c, "read", s.x) EXCEPT !.data = read_slice(c.mem, s.x, s.y).data]
            ELSE Fail(c, "read", "Memory", s.x)
      [] s.op = "read_outs" ->
            IF read_slice(c.mem, s.x, s.y).ok
            THEN [Pass(c, "read", s.x) EXCEPT !.outs = read_slice(c.mem, s.x, s.y).data]
            ELSE Fail(c, "read", "Memory", s.x)
      [] s.op = "write" -> Wrote(c, write_slice(c.mem, s.x, s.y), s.x)
      [] s.op = "write_api" -> Wrote(c, write_slice(c.mem, s.x, Rep(r.byte, s.y)), s.x)
      [] s.op = "write_u32_len" -> Wrote(c, write_u32(c.mem, s.x, r.len), s.x)
      [] s.op = "write_ret" ->
            Wrote(c, write_slice(c.mem, s.x, return_data_part(c.ret_len, s.y[1], s.y[2])), s.x)
      [] s.op = "api" ->
            IF s.y /\ ~r.ok THEN [Fail(c, "api", "Internal", c.fwd) EXCEPT !.at_call = c.m]
            ELSE [Pass(c, "api", c.fwd) EXCEPT !.at_call = c.m]
      [] s.op = "api_result" ->
            IF r.ok THEN Pass(c, "result", 0) ELSE Fail(c, "result", "Internal", 0)
      [] s.op = "set_ret_len" -> set_return_data_len(Pass(c, "cell", r.len), r.len)
      [] s.op = "clamp_ink" ->
            [c EXCEPT !.fwd = ink_to_gas(cfg, Min(s.x, meter_into(ink_left(c.m))))]
      [] s.op = "clamp_gas" ->
            IF ink_left(c.m).tag # "Ready" THEN Fail(c, "ready", "OutOfInk", 0)
            ELSE [c EXCEPT !.fwd = Min(s.x, ink_to_gas(cfg, ink_left(c.m).ink))]
      [] s.op = "ink_ready" ->
            IF ink_left(c.m).tag # "Ready" THEN Fail(c, "ready", "OutOfInk", 0) ELSE c
      [] s.op = "ret" ->
            [c EXCEPT !.ret =
                CASE s.x = "gas_left" -> gas_left(cfg, c.m)
                  [] s.x = "ink_left" -> meter_into(ink_left(c.m))
                  [] s.x = "ret_len" -> return_data_len(c)
                  [] s.x = "status" -> IF r.ok THEN 0 ELSE 1
                  [] OTHER -> s.y]
      [] s.op = "say" -> Pass(c, "say", 0)
      [] OTHER -> Pass(c, "trace", 0)

\* a host function body that keeps going after a failed step
RECURSIVE Exec_continues(_, _, _, _, _, _)
Exec_continues(e, cfg, r, c, steps, i) ==
    IF i > Len(steps) THEN c
    ELSE Exec_continues(e, cfg, r, Step(e, cfg, r, c, steps[i]), steps, i + 1)

RECURSIVE Exec(_, _, _, _, _, _)
Exec(e, cfg, r, c, steps, i) ==
    IF i > Len(steps) \/ c.err # "" THEN c
    ELSE Exec(e, cfg, r, Step(e, cfg, r, c, steps[i]), steps, i + 1)

(***************************************************************************)
(* Arguments of a host call: p, p2, p3 are the pointers the call reads     *)
(* from, q and q2 the pointers it writes to, len a length, n a count and   *)
(* gas the gas or ink the program offers to a sub-call.                    *)
(***************************************************************************)
Arg(p, p2, p3, q, q2, len, n, gas) ==
    [p |-> p, p2 |-> p2, p3 |-> p3, q |-> q, q2 |-> q2, len |-> len, n |-> n, gas |-> gas]

\* EvmData: the immutable context of the call, one byte pattern per field
EvmData ==
    [evm_gas_price |-> 17, block_basefee |-> 18, block_chainid |-> 19,
     block_difficulty |-> 20, block_number |-> 21, block_timestamp |-> 22,
     msg_value |-> 23, block_coinbase |-> 24, msg_sender |-> 25, tx_origin |-> 26,
     contract_address |-> 27, block_gas_limit |-> 28, msg_reentrant |-> 1]

Bytes32Fields ==
    {"evm_gas_price", "block_basefee", "block_chainid", "block_difficulty",
     "block_number", "block_timestamp", "msg_value"}

Bytes20Fields ==
    {"block_coinbase", "msg_sender", "tx_origin"}

CallFns ==
    {"call_contract", "delegate_call_contract", "static_call_contract"}

CreateFns ==
    {"create1", "create2"}

ConsoleFns ==
    {"console_log_text", "console_log", "console_tee"}

(***************************************************************************)
(* The native host functions (stylus/src/host.rs)                          *)
(***************************************************************************)
NativeSteps(f, a, cfg, args) ==
    LET start == S("overhead", cfg.hostio_ink, 0)
        quick == S("buy_gas", GAS_QUICK_STEP, 0)
    IN  CASE f = "read_args" ->
                <<start, S("evm_copy", Len(args), 0), S("write", a.q, args)>>
          [] f = "return_data" ->
                <<start, S("evm_copy", a.len, 0), S("read_outs", a.p, a.len)>>
          [] f \in {"evm_blockhash", "account_load_bytes32"} ->
                <<start, S("read", a.p, 32), S("api", f, FALSE),
                  S("write_api", a.q, 32), S("buy_cost", 0, 0)>>
          [] f \in Bytes32Fields ->
                <<start, quick, S("write", a.q, Rep(EvmData[f], 32))>>
          [] f \in Bytes20Fields ->
                <<start, quick, S("write", a.q, Rep(EvmData[f], 20))>>
          [] f = "evm_ink_price" -> <<start, quick, S("ret", "value", cfg.ink_price)>>
          [] f = "evm_gas_left" -> <<start, quick, S("ret", "gas_left", 0)>>
          [] f = "evm_ink_left" -> <<start, quick, S("ret", "ink_left", 0)>>
          [] f = "block_gas_limit" ->
                <<start, quick, S("ret", "value", EvmData.block_gas_limit)>>
          [] f = "account_store_bytes32" ->
                <<start, S("require_gas", SSTORE_SENTRY_GAS, 0), S("read", a.p, 32),
                  S("read", a.p2, 32), S("api", f, TRUE), S("buy_cost", 0, 0)>>
          [] f \in CallFns ->
                <<start, S("evm_copy", a.len, 0), S("clamp_ink", a.gas, 0),
                  S("read", a.p, 20), S("read", a.p2, a.len)>>
                \o (IF f = "call_contract" THEN <<S("read", a.p3, 32)>> ELSE <<>>)
                \o <<S("api", f, FALSE), S("set_ret_len", 0, 0),
                     S("write_u32_len", a.q2, 0), S("buy_cost", 0, 0),
                     S("ret", "status", 0)>>
          [] f \in CreateFns ->
                <<start, S("evm_copy", a.len, 0), S("read", a.p, a.len),
                  S("read", a.p2, 32)>>
                \o (IF f = "create2" THEN <<S("read", a.p3, 32)>> ELSE <<>>)
                \o <<S("clamp_ink", U64Max, 0), S("api", f, FALSE),
                     S("set_ret_len", 0, 0), S("write_u32_len", a.q2, 0),
                     S("buy_cost", 0, 0), S("api_result", 0, 0),
                     S("write_api", a.q, 20)>>
          [] f = "read_return_data" ->
                <<start, S("evm_copy_ret", 0, 0), S("api", f, FALSE),
                  S("write_ret", a.q, <<0, U64Max>>)>>
          [] f = "return_data_size" -> <<start, S("ret", "ret_len", 0)>>
          [] f = "emit_log" ->
                <<start, S("check", ~bad_topic_data(a.len, a.n), "Logical"),
                  S("buy_gas", (1 + a.n) * LOG_TOPIC_GAS, 0),
                  S("buy_gas", (a.len - a.n * 32) * LOG_DATA_GAS, 0),
                  S("read", a.p, a.len), S("api", f, TRUE)>>
          [] f = "console_log_text" -> <<S("read", a.p, a.len), S("say", 0, 0)>>
          [] f = "console_log" -> <<S("say", 0, 0)>>
          [] f = "console_tee" -> <<S("say", 0, 0), S("ret", "value", a.n)>>
          [] OTHER -> <<>>

NativeFns ==
    {"read_args", "return_data", "evm_blockhash", "account_load_bytes32",
     "account_store_bytes32", "read_return_data", "return_data_size", "emit_log",
     "evm_ink_price", "evm_gas_left", "evm_ink_left", "block_gas_limit"}
    \cup Bytes32Fields \cup Bytes20Fields \cup CallFns \cup CreateFns \cup ConsoleFns

(***************************************************************************)
(* The exports of the replay host taking raw pointers                      *)
(* (wasm-libraries/user-host/src/user.rs).  Program::start() charges the   *)
(* configured overhead; every failure is a panic, which traps the machine. *)
(* tx_gas_price and tx_ink_price are the native evm_gas_price and          *)
(* evm_ink_price, address_balance and address_codehash exist only here.    *)
(***************************************************************************)
LegacySteps(f, a, cfg, args) ==
    LET start == S("overhead", cfg.hostio_ink, 0)
        quick == S("buy_gas", GAS_QUICK_STEP, 0)
    IN  CASE f = "read_args" ->
                <<start, S("evm_copy", Len(args), 0), S("write", a.q, args)>>
          [] f = "return_data" ->
                <<start, S("evm_copy", a.len, 0), S("read_outs", a.p, a.len)>>
          [] f \in {"evm_blockhash", "account_load_bytes32"} ->
                <<start, S("read", a.p, 32), S("api", f, FALSE),
                  S("buy_cost", 0, 0), S("write_api", a.q, 32)>>
          [] f \in {"address_balance", "address_codehash"} ->
                <<start, S("read", a.p, 20), S("api", f, FALSE),
                  S("buy_cost", 0, 0), S("write_api", a.q, 32)>>
          [] f \in Bytes32Fields ->
                <<start, quick, S("write", a.q, Rep(EvmData[f], 32))>>
          [] f \in Bytes20Fields \cup {"contract_address"} ->
                <<start, quick, S("write", a.q, Rep(EvmData[f], 20))>>
          [] f = "evm_ink_price" -> <<start, quick, S("ret", "value", cfg.ink_price)>>
          [] f = "evm_gas_left" ->
                <<start, quick, S("ink_ready", 0, 0), S("ret", "gas_left", 0)>>
          [] f = "evm_ink_left" ->
                <<start, quick, S("ink_ready", 0, 0), S("ret", "ink_left", 0)>>
          [] f = "block_gas_limit" ->
                <<start, quick, S("ret", "value", EvmData.block_gas_limit)>>
          [] f = "account_store_bytes32" ->
                <<start, S("require_gas", SSTORE_SENTRY_GAS, 0), S("read", a.p, 32),
                  S("read", a.p2, 32), S("api", f, TRUE), S("buy_cost", 0, 0)>>
          [] f \in CallFns ->
                <<start, S("evm_copy", a.len, 0), S("ink_ready", 0, 0),
                  S("clamp_ink", a.gas, 0), S("read", a.p, 20), S("read", a.p2, a.len)>>
                \o (IF f = "call_contract" THEN <<S("read", a.p3, 32)>> ELSE <<>>)
                \o <<S("api", f, FALSE), S("set_ret_len", 0, 0),
                     S("write_u32_len", a.q2, 0), S("buy_cost", 0, 0),
                     S("ret", "status", 0)>>
          [] f \in CreateFns ->
                <<start, S("evm_copy", a.len, 0), S("read", a.p, a.len),
                  S("read", a.p2, 32)>>
                \o (IF f = "create2" THEN <<S("read", a.p3, 32)>> ELSE <<>>)
                \o <<S("clamp_gas", U64Max, 0), S("api", f, FALSE),
                     S("set_ret_len", 0, 0), S("write_u32_len", a.q2, 0),
                     S("buy_cost", 0, 0), S("api_result", 0, 0),
                     S("write_api", a.q, 20)>>
          [] f = "read_return_data" ->
                <<start, S("evm_copy_ret", 0, 0), S("api", f, FALSE),
                  S("write_ret", a.q, <<0, U64Max>>)>>
          [] f = "return_data_size" -> <<start, S("ret", "ret_len", 0)>>
          [] f = "emit_log" ->
                <<start, S("check", ~bad_topic_data(a.len, a.n), "Panic"),
                  S("buy_gas", evm_log_gas(a.n, a.len - a.n * 32), 0),
                  S("read", a.p, a.len), S("api", f, TRUE)>>
          [] OTHER -> <<>>

LegacyFns ==
    {"read_args", "return_data", "evm_blockhash", "account_load_bytes32",
     "address_balance", "address_codehash", "contract_address",
     "account_store_bytes32", "read_return_data", "return_data_size", "emit_log",
     "evm_ink_price", "evm_gas_left", "evm_ink_left", "block_gas_limit"}
    \cup Bytes32Fields \cup Bytes20Fields \cup CallFns \cup CreateFns

(***************************************************************************)
(* The host functions of the UserHost trait                                *)
(* (wasm-libraries/user-host/src/host.rs).  The trace! macro reads the     *)
(* meter with ink_ready()? before it records the call.                     *)
(***************************************************************************)
UserHostSteps(f, a, cfg, args) ==
    LET traced == IF cfg.tracing THEN <<S("ink_ready", 0, 0), S("trace", f, 0)>> ELSE <<>>
        getter(name) == <<S("overhead", HOSTIO_INK, 0), S("ret", "value", EvmData[name])>>
        pointer(name, n) ==
            <<S("overhead", HOSTIO_INK + PTR_INK, 0), S("write", a.q, Rep(EvmData[name], n))>>
    IN  CASE f = "read_args" ->
                <<S("overhead", HOSTIO_INK, 0), S("buy_ink", write_price(Len(args)), 0),
                  S("write", a.q, args)>> \o traced
          [] f = "write_result" ->
                <<S("overhead", HOSTIO_INK, 0), S("buy_ink", read_price(a.len), 0),
                  S("read_outs", a.p, a.len)>> \o traced
          [] f = "storage_load_bytes32" ->
                <<S("overhead", HOSTIO_INK + 2 * PTR_INK + EVM_API_INK, 0),
                  S("read", a.p, 32), S("api", f, FALSE), S("buy_cost", 0, 0),
                  S("write_api", a.q, 32)>> \o traced
          [] f \in {"account_balance", "account_codehash"} ->
                <<S("overhead", HOSTIO_INK + 2 * PTR_INK + EVM_API_INK, 0),
                  S("read", a.p, 20), S("api", f, FALSE), S("buy_cost", 0, 0),
                  S("write_api", a.q, 32)>> \o traced
          [] f = "storage_store_bytes32" ->
                <<S("overhead", HOSTIO_INK + 2 * PTR_INK + EVM_API_INK, 0),
                  S("require_gas", SSTORE_SENTRY_GAS, 0), S("read", a.p, 32),
                  S("read", a.p2, 32), S("api", f, TRUE), S("buy_cost", 0, 0)>> \o traced
          [] f \in CallFns ->
                <<S("overhead", HOSTIO_INK + 3 * PTR_INK + EVM_API_INK, 0),
                  S("buy_ink", read_price(a.len), 0), S("clamp_gas", a.gas, 0),
                  S("read", a.p, 20), S("read", a.p2, a.len)>>
                \o (IF f = "call_contract" THEN <<S("read", a.p3, 32)>> ELSE <<>>)
                \o <<S("api", f, FALSE), S("buy_cost", 0, 0), S("set_ret_len", 0, 0),
                     S("write_u32_len", a.q2, 0), S("ret", "status", 0)>> \o traced
          [] f \in CreateFns ->
                <<S("overhead", HOSTIO_INK + (IF f = "create1" THEN 3 ELSE 4) * PTR_INK
                                + EVM_API_INK, 0),
                  S("buy_ink", read_price(a.len), 0), S("read", a.p, a.len),
                  S("read", a.p2, 32)>>
                \o (IF f = "create2" THEN <<S("read", a.p3, 32)>> ELSE <<>>)
                \o <<S("clamp_gas", U64Max, 0), S("api", f, FALSE), S("api_result", 0, 0),
                     S("buy_cost", 0, 0), S("set_ret_len", 0, 0),
                     S("write_u32_len", a.q2, 0), S("write_api", a.q, 20)>> \o traced
          [] f = "read_return_data" ->
                <<S("overhead", HOSTIO_INK + EVM_API_INK, 0),
                  S("buy_ink", write_price(a.len), 0), S("api", f, FALSE),
                  S("write_ret", a.q, <<a.n, a.len>>)>> \o traced
          [] f = "return_data_size" ->
                <<S("overhead", HOSTIO_INK, 0), S("ret", "ret_len", 0)>> \o traced
          [] f = "emit_log" ->
                <<S("overhead", HOSTIO_INK + EVM_API_INK, 0),
                  S("check", ~bad_topic_data(a.len, a.n), "Internal"),
                  S("buy_ink", read_price(a.len), 0),
                  S("buy_gas", evm_log_gas(a.n, a.len - a.n * 32), 0),
                  S("read", a.p, a.len), S("api", f, TRUE)>> \o traced
          [] f = "block_basefee" -> pointer("block_basefee", 32) \o traced
          [] f = "msg_value" -> pointer("msg_value", 32) \o traced
          [] f = "tx_gas_price" -> pointer("evm_gas_price", 32) \o traced
          [] f \in {"block_coinbase", "contract_address", "msg_sender", "tx_origin"} ->
                pointer(f, 20) \o traced
          [] f \in {"block_gas_limit", "block_number", "block_timestamp", "msg_reentrant"} ->
                getter(f) \o traced
          [] f = "chainid" -> getter("block_chainid") \o traced
          [] f = "tx_ink_price" ->
                <<S("overhead", HOSTIO_INK, 0), S("ret", "value", cfg.ink_price)>> \o traced
          [] f = "evm_gas_left" ->
                <<S("overhead", HOSTIO_INK, 0), S("ink_ready", 0, 0),
                  S("ret", "gas_left", 0)>> \o traced
          [] f = "evm_ink_left" ->
                <<S("overhead", HOSTIO_INK, 0), S("ink_ready", 0, 0),
                  S("ret", "ink_left", 0)>> \o traced
          [] f = "native_keccak256" ->
                <<S("buy_ink", keccak_price(a.len), 0), S("read", a.p, a.len),
                  S("write", a.q, Rep(204, 32))>> \o traced
          [] f = "memory_grow" ->
                IF a.n = 0 THEN <<S("overhead", HOSTIO_INK, 0)>>
                ELSE <<S("api", "add_pages", FALSE), S("buy_cost", 0, 0)>> \o traced
          [] OTHER -> <<>>

UserHostFns ==
    {"read_args", "write_result", "storage_load_bytes32", "account_balance",
     "account_codehash", "storage_store_bytes32", "read_return_data",
     "return_data_size", "emit_log", "block_basefee", "msg_value", "tx_gas_price",
     "block_coinbase", "contract_address", "msg_sender", "tx_origin",
     "block_gas_limit", "block_number", "block_timestamp", "msg_reentrant", "chainid",
     "tx_ink_price", "evm_gas_left", "evm_ink_left", "native_keccak256", "memory_grow"}
    \cup CallFns \cup CreateFns

(***************************************************************************)
(* State                                                                   *)
(***************************************************************************)
Engines ==
    {"native", "replay", "userhost"}

\* the adapters that run a program and report its outcome
Adapters ==
    {"stylus_call", "call_user_wasm", "replay", "userhost"}

VARIABLES
    config,     \* StylusConfig and EvmData.tracing: [ink_price, hostio_ink, max_depth, tracing]
    run,        \* which engines execute the program of this behaviour
    gas_in,     \* the gas the caller supplies
    args,       \* the call input of the program
    pc,         \* [Engines -> "off" | "init" | "running" | "returned" | "trapped" | "done"]
    meter,      \* [Engines -> MeterData]
    stack_left, \* [Engines -> remaining stack depth of the instrumented module]
    mem,        \* [Engines -> linear memory of the program]
    outs,       \* [Engines -> output buffer of the Program]
    ret_len,    \* [Engines -> the return-data-length cell]
    exit,       \* [Engines -> how the entry point ended]
    last,       \* [Engines -> record of the last host call]
    result,     \* [Adapters -> what the adapter reported]
    steps,      \* operations the program has performed
    lastOp      \* the last operation applied to the native meter

\* The replay machine's stack of Programs and the activations of
\* callUserWasmRustImpl that own them.
VARIABLES
    PROGRAMS,   \* the Program stack: sequence of [id, module]
    calls,      \* activations of callUserWasmRustImpl, innermost last
    pushed,     \* Programs created so far (the next Program's id is pushed + 1)
    served,     \* the last host call: the module that issued it, the Program that served it
    returned    \* the last activation that returned: depths, Program pushed and popped, status

stackVars ==
    <<PROGRAMS, calls, pushed, served, returned>>

\* exec_wasm: the worker thread, the owning thread and what went over the
\* channels between them.
VARIABLES
    worker,     \* the thread running the program: [pc, calls, got, outcome, ink_left]
    owner,      \* exec_wasm on the owning thread: [pc, served, result, timeouts]
    relay       \* sequence of channel events: sends, dispatches and responses

relayVars ==
    <<worker, owner, relay>>

\* one ApiValue crossing the boundary: [phase, value, wire, back]; a value is
\* [kind, n, b]: n the number of U32/U64, b the bytes of Bytes/Bytes20/Bytes32
\* or the characters (code points) of String
VARIABLE codec

\* one call of an EvmApi client and the host's answer to it:
\* [api, op, outs, answer, phase, ret]
VARIABLE client

\* one linear memory and the accesses made to it through a memory accessor:
\* [impl, mem, writes, last, prev]
VARIABLE access

\* the EvmData of one Program: [created, data, last]
VARIABLE evm

\* one call host function and the client's answer to it:
\* [phase, cfg, pre, e, f, a, k, fwd, cost, ev, err, post, at_call]
VARIABLE forward
VARIABLE pool
VARIABLE sdk

auxVars ==
    <<client, access, evm, forward, pool, sdk>>

vars ==
    <<config, run, gas_in, args, pc, meter, stack_left, mem, outs, ret_len, exit,
      last, result, steps, lastOp, stackVars, relayVars, codec, auxVars>>

InkPrices ==
    {3333, 10000, 30000}

Configs ==
    [ink_price : InkPrices, hostio_ink : {100}, max_depth : {64}, tracing : BOOLEAN]

NoExit ==
    [status |-> 0, err |-> ""]

\* what is remembered of the host call before the last one
NoPrev ==
    [f |-> "none", ok |-> TRUE, ret |-> 0, len |-> 0]

NoCall ==
    [f |-> "none", a |-> Arg(0, 0, 0, 0, 0, 0, 0, 0), r |-> [cost |-> 0, len |-> 0, ok |-> TRUE, byte |-> 0],
     pre |-> MeterData(0, 0), premem |-> <<>>, preouts |-> <<>>, preret |-> 0,
     post |-> MeterData(0, 0), ev |-> <<>>, err |-> "", ret |-> 0, fwd |-> 0,
     at_call |-> MeterData(0, 0), traps |-> 0, prev |-> NoPrev]

NoResult ==
    [done |-> FALSE, wrote |-> FALSE, status |-> "", output |-> <<>>, gas |-> 0]

\* no Program pushed, no activation of callUserWasmRustImpl
IdleStack ==
    /\ PROGRAMS = <<>>
    /\ calls = <<>>
    /\ pushed = 0
    /\ served = [module |-> "none", issuer |-> 0, program |-> 0]
    /\ returned = [n |-> 0, entry_depth |-> 0, exit_depth |-> 0, pushed |-> 0, popped |-> 0,
                   status |-> "", current |-> 0, caller |-> 0]

\* what exec_wasm has returned and call_user_wasm has written: nothing yet
NoReturn ==
    [kind |-> "", outcome |-> "", ink_left |-> 0, error |-> "", status |-> "",
     wrote_gas |-> FALSE, gas |-> 0]

\* exec_wasm not called
IdleRelay ==
    /\ worker = [pc |-> "off", calls |-> 0, got |-> 0, outcome |-> "", ink_left |-> 0]
    /\ owner = [pc |-> "off", served |-> 0, result |-> NoReturn, timeouts |-> 0]
    /\ relay = <<>>

\* no ApiValue under way
IdleCodec ==
    codec = [phase |-> "off", value |-> [kind |-> "Nil", n |-> 0, b |-> <<>>], wire |-> <<>>,
             back |-> [kind |-> "Nil", n |-> 0, b |-> <<>>]]

\* what a client call has returned: nothing yet
NoRet ==
    [end |-> "none", bytes |-> <<>>, len |-> 0, cost |-> 0, status |-> "", msg |-> <<>>]

\* what the host has answered over the FFI: nothing yet
NoAnswer ==
    [status |-> "Success", value |-> <<>>, data |-> <<>>, len |-> 0, cost |-> 0]

\* no client call under way
IdleClient ==
    client = [api |-> "none", op |-> "none", outs |-> <<>>, answer |-> NoAnswer,
              phase |-> "off", ret |-> NoRet]

\* an access record: nothing done yet
NoAccess ==
    [op |-> "none", ptr |-> 0, len |-> 0, src |-> <<>>, end |-> "", data |-> <<>>, pre |-> <<>>]

\* no memory under observation
IdleAccess ==
    access = [impl |-> "none", mem |-> <<>>, writes |-> 0, last |-> NoAccess, prev |-> NoAccess]

\* no EvmData created
IdleEvm ==
    evm = [created |-> <<>>, data |-> <<>>, last |-> [f |-> "none", value |-> 0]]

\* no call forwarded
IdleForward ==
    forward = [phase |-> "off", cfg |-> [ink_price |-> 10000, hostio_ink |-> 100, max_depth |-> 64,
                                          tracing |-> FALSE],
               pre |-> MeterData(0, 0), e |-> "none", f |-> "none", gas |-> 0, k |-> "none",
               fwd |-> 0, cost |-> 0, ev |-> <<>>, err |-> "", post |-> MeterData(0, 0),
               at_call |-> MeterData(0, 0)]

NoPoolOp ==
    [op |-> "", id |-> 0, res |-> <<>>, pre |-> [objects |-> <<>>, free_ids |-> <<>>]]

IdlePool ==
    pool = [objects |-> <<>>, free_ids |-> <<>>, last |-> NoPoolOp,
            phase |-> "off", object_ids |-> <<>>, stylus_result |-> <<>>,
            sent |-> <<>>, err |-> ""]

NoSdkOp ==
    [op |-> "", offset |-> 0, size |-> <<>>, full |-> 0, data |-> <<>>, status |-> 0]

IdleSdk ==
    sdk = [phase |-> "off", cache |-> <<>>, host_len |-> 0, last |-> NoSdkOp]

IdleAux ==
    /\ IdleClient
    /\ IdleAccess
    /\ IdleEvm
    /\ IdleForward
    /\ IdlePool
    /\ IdleSdk

MeterOp(op, arg, pre, ok) ==
    [op |-> op, arg |-> arg, pre |-> pre, ok |-> ok]

\* the parts of the state no program has touched yet
Idle ==
    /\ args = <<1, 2, 3, 4>>
    /\ stack_left = [e \in Engines |-> 0]
    /\ mem = [e \in Engines |-> Rep(0, MemSize)]
    /\ outs = [e \in Engines |-> <<>>]
    /\ ret_len = [e \in Engines |-> 0]
    /\ exit = [e \in Engines |-> NoExit]
    /\ last = [e \in Engines |-> NoCall]
    /\ result = [k \in Adapters |-> NoResult]
    /\ steps = 0

(***************************************************************************)
(* SpecMeter: the meter of one native instance driven operation by         *)
(* operation, as test_gas drives it through set_gas and gas_left.          *)
(***************************************************************************)
InkSamples ==
    {0, 50, 99, 100, 500}

GasSamples ==
    {0, 1, 50, 100, 2300, U64Max \div INK_PRICE_UNIT + 1, U64Max}

InitMeter ==
    /\ config \in Configs
    /\ config.tracing = FALSE
    /\ run = "meter"
    /\ gas_in = 0
    /\ pc = [e \in Engines |-> "off"]
    /\ Idle
    /\ IdleStack
    /\ IdleRelay
    /\ IdleCodec
    /\ IdleAux
    /\ \E n \in InkSamples :
        /\ meter = [e \in Engines |-> IF e = "native" THEN set_ink(MeterData(0, 0), n)
                                                     ELSE MeterData(0, 0)]
        /\ lastOp = MeterOp("set_ink", n, MeterData(0, 0), TRUE)

ApplyMeterOp(op, arg, r) ==
    /\ meter' = [meter EXCEPT !["native"] = r.m]
    /\ lastOp' = MeterOp(op, arg, meter["native"], r.ok)
    /\ UNCHANGED <<stackVars, relayVars, codec, auxVars, config, run, gas_in, args, pc, stack_left, mem, outs, ret_len, exit,
                   last, result, steps>>

MeterBuyInk ==
    \E ink \in InkSamples \cup {1, U64Max} :
        ApplyMeterOp("buy_ink", ink, buy_ink(meter["native"], ink))

MeterBuyGas ==
    \E gas \in GasSamples :
        ApplyMeterOp("buy_gas", gas, buy_gas(config, meter["native"], gas))

MeterRequireGas ==
    \E gas \in GasSamples :
        ApplyMeterOp("require_gas", gas, require_gas(config, meter["native"], gas))

MeterPayForEvmCopy ==
    \E bytes \in {0, 32, 33, 64, U64Max} :
        ApplyMeterOp("pay_for_evm_copy", bytes,
                     pay_for_evm_copy(config, meter["native"], bytes))

MeterInstrumentedOp ==
    \E ink \in {1, 100} :
        ApplyMeterOp("instrumented_op", ink, instrumented_op(meter["native"], ink))

NextMeter ==
    \/ MeterBuyInk
    \/ MeterBuyGas
    \/ MeterRequireGas
    \/ MeterPayForEvmCopy
    \/ MeterInstrumentedOp

SpecMeter ==
    InitMeter /\ [][NextMeter]_vars

(***************************************************************************)
(* Spec: programs run by the execution adapters.  A behaviour runs one     *)
(* program either on the native engine and the replay machine side by side *)
(* ("cross": the same program, the same answers of the EVM API client), on *)
(* the replay machine alone, or on the replay machine with the UserHost    *)
(* dispatcher.                                                             *)
(***************************************************************************)
Runs ==
    {"cross", "replay", "userhost"}

Active(r) ==
    CASE r = "cross" -> {"native", "replay"}
      [] r = "replay" -> {"replay"}
      [] r = "userhost" -> {"userhost"}
      [] OTHER -> {}

FnsOf(e) ==
    CASE e = "native" -> NativeFns
      [] e = "replay" -> LegacyFns
      [] OTHER -> UserHostFns

\* the host functions a program of this run may import: those both engines
\* provide (and the console) when it runs on both, those only the replay
\* machine provides when it runs there alone
Imports(r) ==
    CASE r = "cross" -> (NativeFns \cap LegacyFns) \cup ConsoleFns
      [] r = "replay" -> LegacyFns \ NativeFns
      [] OTHER -> UserHostFns

StepsOf(e, f, a, cfg, input) ==
    CASE e = "native" -> NativeSteps(f, a, cfg, input)
      [] e = "replay" -> LegacySteps(f, a, cfg, input)
      [] OTHER -> UserHostSteps(f, a, cfg, input)

StartGas ==
    {50, 2598, 5000, U64Max}

Init ==
    /\ config \in Configs
    /\ run \in Runs
    /\ config.tracing => run = "userhost"
    /\ (run = "userhost" /\ ~config.tracing) => config.ink_price = INK_PRICE_UNIT
    /\ gas_in \in StartGas
    /\ pc = [e \in Engines |-> IF e \in Active(run) THEN "init" ELSE "off"]
    /\ meter = [e \in Engines |-> MeterData(0, 0)]
    /\ lastOp = MeterOp("none", 0, MeterData(0, 0), TRUE)
    /\ Idle
    /\ IdleStack
    /\ IdleRelay
    /\ IdleCodec
    /\ IdleAux

Running(e) ==
    pc[e] = "running"

\* The adapter's prologue: the supplied gas is converted to ink and the
\* instrumentation globals are set (stylus_call and call_user_wasm through
\* run_main, callUserWasmRustImpl through program_set_ink/program_set_stack).
\* stylus_call first charges the module's pages against the caller's gas and
\* returns OutOfInk at once when that fails; it then writes neither output nor
\* gas.
Start(pages_ok) ==
    /\ \E e \in Active(run) : pc[e] = "init"
    /\ pc' = [e \in Engines |-> IF pc[e] = "init" THEN "running" ELSE pc[e]]
    /\ meter' = [e \in Engines |->
                    IF pc[e] = "init" THEN set_ink(meter[e], gas_to_ink(config, gas_in))
                    ELSE meter[e]]
    /\ stack_left' = [e \in Engines |-> IF pc[e] = "init" THEN config.max_depth
                                         ELSE stack_left[e]]
    /\ result' = IF run = "cross" /\ ~pages_ok
                 THEN [result EXCEPT !["stylus_call"] =
                          [done |-> TRUE, wrote |-> FALSE, status |-> "OutOfInk",
                           output |-> <<>>, gas |-> gas_in]]
                 ELSE result
    /\ UNCHANGED <<stackVars, relayVars, codec, auxVars, config, run, gas_in, args, mem, outs, ret_len, exit, last, steps, lastOp>>

(***************************************************************************)
(* The host calls a program makes: arguments and the answer the EVM API    *)
(* client gives when the call reaches it.                                  *)
(***************************************************************************)
ApiAnswer(cost, len, ok) ==
    [cost |-> cost, len |-> len, ok |-> ok, byte |-> 187]

ApiFree ==
    ApiAnswer(0, 0, TRUE)

ApiPaid ==
    ApiAnswer(2100, 4, TRUE)

ApiFail ==
    ApiAnswer(2100, 4, FALSE)

ApiDear ==
    ApiAnswer(U64Max, 4, TRUE)

\* a pointer too close to the end of memory for 20 or 32 bytes
BadPtr ==
    MemSize - 8

\* a pointer outside memory
FarPtr ==
    MemSize + 1

A0 ==
    Arg(0, 0, 0, 0, 0, 0, 0, 0)

Call(a, r) ==
    [a |-> a, r |-> r]

CallsOf(f) ==
    CASE f \in {"evm_blockhash", "account_load_bytes32", "address_balance",
                "address_codehash", "storage_load_bytes32", "account_balance",
                "account_codehash"} ->
            {Call([A0 EXCEPT !.q = 32], r) : r \in {ApiFree, ApiPaid, ApiDear}}
            \cup {Call([A0 EXCEPT !.q = BadPtr], ApiPaid),
                  Call([A0 EXCEPT !.p = BadPtr, !.q = 32], ApiFree)}
      [] f \in {"account_store_bytes32", "storage_store_bytes32"} ->
            {Call([A0 EXCEPT !.p2 = 32], r) : r \in {ApiFree, ApiPaid, ApiFail, ApiDear}}
            \cup {Call([A0 EXCEPT !.p = BadPtr], ApiFree)}
      [] f \in {"delegate_call_contract", "static_call_contract"} ->
            {Call([A0 EXCEPT !.p2 = 32, !.q2 = 64, !.len = 4, !.gas = 1000], r) :
                     r \in {ApiPaid, ApiDear}}
      [] f = "call_contract" ->
            {Call([A0 EXCEPT !.p2 = 32, !.q2 = 64, !.gas = g], ApiPaid) : g \in {0, 1000, U64Max}}
            \cup {Call([A0 EXCEPT !.p2 = 32, !.q2 = 64, !.len = 4, !.gas = U64Max], r) :
                     r \in {ApiFree, ApiFail, ApiDear}}
            \cup {Call([A0 EXCEPT !.p2 = 32, !.q2 = MemSize - 2, !.gas = 1000], ApiPaid),
                  Call([A0 EXCEPT !.p = BadPtr, !.q2 = 64, !.gas = 1000], ApiPaid)}
      [] f = "create2" ->
            {Call([A0 EXCEPT !.len = 4, !.q = 32, !.q2 = 64], r) : r \in {ApiPaid, ApiFail}}
      [] f = "create1" ->
            {Call([A0 EXCEPT !.len = 4, !.q = 32, !.q2 = 64], r) :
                     r \in {ApiPaid, ApiFail, ApiDear}}
            \cup {Call([A0 EXCEPT !.len = 4, !.q = 32, !.q2 = MemSize - 2], ApiPaid),
                  Call([A0 EXCEPT !.len = 4, !.q = BadPtr, !.q2 = 64], ApiPaid)}
      [] f = "emit_log" ->
            {Call([A0 EXCEPT !.len = 0, !.n = 0], ApiFree),
             Call([A0 EXCEPT !.len = 40, !.n = 1], ApiFree),
             Call([A0 EXCEPT !.len = 40, !.n = 1], ApiFail),
             Call([A0 EXCEPT !.len = 32, !.n = 2], ApiFree),
             Call([A0 EXCEPT !.len = 64, !.n = 2], ApiFree),
             Call([A0 EXCEPT !.len = 0, !.n = 5], ApiFree),
             Call([A0 EXCEPT !.p = BadPtr, !.len = 40, !.n = 1], ApiFree)}
      [] f \in {"return_data", "write_result", "console_log_text"} ->
            {Call([A0 EXCEPT !.p = x[1], !.len = x[2]], ApiFree) :
                     x \in {<<0, 0>>, <<0, 4>>, <<BadPtr, 16>>}}
      [] f = "read_return_data" ->
            {Call([A0 EXCEPT !.q = x[1], !.n = x[2], !.len = x[3]], ApiFree) :
                     x \in {<<0, 0, 4>>, <<0, 2, 4>>, <<FarPtr, 0, 4>>}}
      [] f = "native_keccak256" ->
            {Call([A0 EXCEPT !.p = x[1], !.len = x[2], !.q = x[3]], ApiFree) :
                     x \in {<<0, 4, 32>>, <<0, 0, BadPtr>>, <<BadPtr, 16, 32>>}}
      [] f = "memory_grow" ->
            {Call(A0, ApiFree), Call([A0 EXCEPT !.n = 1], ApiPaid),
             Call([A0 EXCEPT !.n = 1], ApiDear)}
      [] f = "read_args" ->
            {Call([A0 EXCEPT !.q = q], ApiFree) : q \in {0, FarPtr}}
      [] f \in {"msg_value", "msg_sender", "contract_address"} ->
            {Call([A0 EXCEPT !.q = q], ApiFree) : q \in {0, BadPtr}}
      [] OTHER -> {Call(A0, ApiFree)}

(***************************************************************************)
(* The program's steps                                                     *)
(***************************************************************************)
\* The engines on which the call of f is dispatched.  The console functions
\* are host functions of the native engine only.
Dispatches(e, f) ==
    Running(e) /\ f \in FnsOf(e)

\* a failing export that returns without setting the trap flag
hostio_swallows(c) ==
    [value |-> IF c.err = "" THEN c.ret ELSE 0, traps |-> 0]

\* hostio!: the value the export hands to the program and the number of
\* set_trap calls it made
hostio(c) ==
    IF c.err = "" THEN [value |-> c.ret, traps |-> 0] ELSE [value |-> 0, traps |-> 1]

\* Whether the engine stops the program after the host call: the native
\* engine on the Escape the host function returns, the replay machine on the
\* panic of an unwrap, and behind hostio! on the trap flag.
Traps(e, c) ==
    IF e = "userhost" THEN hostio(c).traps > 0 ELSE c.err # ""

\* what the next host call remembers of this one
Remembered(l) ==
    IF l.f \in CallFns \cup CreateFns \cup {"return_data_size"}
    THEN [f |-> l.f, ok |-> l.err = "", ret |-> l.ret, len |-> l.r.len]
    ELSE [NoPrev EXCEPT !.f = "other"]

\* The operations a program performs are bounded; repeating
\* return_data_size is bounded on its own.
MayCall(f) ==
    \/ steps < MaxSteps
    \/ /\ f = "return_data_size"
       /\ steps < MaxSteps + MaxRepeats
       /\ \A e \in Active(run) : last[e].f = "return_data_size"

\* One host call, issued by the program on every engine that runs it.
HostCall(f, a, r) ==
    /\ MayCall(f)
    /\ \E e \in Active(run) : Running(e)
    /\ \E cs \in {[e \in Engines |->
                     IF Dispatches(e, f)
                     THEN Exec(e, config, r, Ctx(meter[e], mem[e], outs[e], ret_len[e]),
                               StepsOf(e, f, a, config, args), 1)
                     ELSE Ctx(meter[e], mem[e], outs[e], ret_len[e])]} :
        /\ meter' = [e \in Engines |-> cs[e].m]
        /\ mem' = [e \in Engines |-> cs[e].mem]
        /\ outs' = [e \in Engines |-> cs[e].outs]
        /\ ret_len' = [e \in Engines |-> cs[e].ret_len]
        /\ pc' = [e \in Engines |-> IF Traps(e, cs[e]) THEN "trapped" ELSE pc[e]]
        /\ exit' = [e \in Engines |->
                       IF Traps(e, cs[e]) THEN [status |-> 0, err |-> cs[e].err] ELSE exit[e]]
        /\ last' = [e \in Engines |->
                       IF Dispatches(e, f)
                       THEN [f |-> f, a |-> a, r |-> r, pre |-> meter[e], premem |-> mem[e],
                             preouts |-> outs[e], preret |-> ret_len[e], post |-> cs[e].m,
                             ev |-> cs[e].ev, err |-> cs[e].err,
                             ret |-> hostio(cs[e]).value, fwd |-> cs[e].fwd,
                             at_call |-> cs[e].at_call,
                             traps |-> IF e = "userhost" THEN hostio(cs[e]).traps ELSE 0,
                             prev |-> IF last[e].f = "none" THEN NoPrev
                                      ELSE Remembered(last[e])]
                       ELSE last[e]]
    /\ steps' = steps + 1
    /\ UNCHANGED <<stackVars, relayVars, codec, auxVars, config, run, gas_in, args, stack_left, result, lastOp>>

\* Instrumented code of the program between host calls: a block costing ink.
WasmOp(ink) ==
    /\ steps < MaxSteps
    /\ \E e \in Active(run) : Running(e)
    /\ meter' = [e \in Engines |->
                    IF Running(e) THEN instrumented_op(meter[e], ink).m ELSE meter[e]]
    /\ pc' = [e \in Engines |->
                 IF Running(e) /\ ~instrumented_op(meter[e], ink).ok THEN "trapped" ELSE pc[e]]
    /\ exit' = [e \in Engines |->
                   IF Running(e) /\ ~instrumented_op(meter[e], ink).ok
                   THEN [status |-> 0, err |-> "Unreachable"] ELSE exit[e]]
    /\ steps' = steps + 1
    /\ UNCHANGED <<stackVars, relayVars, codec, auxVars, config, run, gas_in, args, stack_left, mem, outs, ret_len, last,
                   result, lastOp>>

\* The depth instrumentation finds the stack used up: it zeroes stack_left and
\* traps.
StackOverflow ==
    /\ steps < MaxSteps
    /\ \E e \in Active(run) : Running(e)
    /\ stack_left' = [e \in Engines |-> IF Running(e) THEN 0 ELSE stack_left[e]]
    /\ pc' = [e \in Engines |-> IF Running(e) THEN "trapped" ELSE pc[e]]
    /\ exit' = [e \in Engines |->
                   IF Running(e) THEN [status |-> 0, err |-> "Unreachable"] ELSE exit[e]]
    /\ steps' = steps + 1
    /\ UNCHANGED <<stackVars, relayVars, codec, auxVars, config, run, gas_in, args, meter, mem, outs, ret_len, last, result, lastOp>>

\* The entry point returns its status word.
Return(status) ==
    /\ \E e \in Active(run) : Running(e)
    /\ pc' = [e \in Engines |-> IF Running(e) THEN "returned" ELSE pc[e]]
    /\ exit' = [e \in Engines |->
                   IF Running(e) THEN [status |-> status, err |-> ""] ELSE exit[e]]
    /\ UNCHANGED <<stackVars, relayVars, codec, auxVars, config, run, gas_in, args, meter, stack_left, mem, outs, ret_len, last,
                   result, steps, lastOp>>

(***************************************************************************)
(* The adapters' epilogues                                                 *)
(***************************************************************************)
Outcome(kind, data) ==
    [kind |-> kind, data |-> data]

\* the bytes of an error report
write_err(err) ==
    <<255, Len(err)>>

\* NativeInstance::run_main (stylus/src/run.rs): how the end of the entry
\* point becomes a UserOutcome.  A trap is OutOfStack when the stack counter
\* is zero, OutOfInk when the meter is exhausted or the host call escaped
\* with OutOfInk, and a Failure carrying the error otherwise.
run_main(e) ==
    IF exit[e].err = ""
    THEN Outcome(IF exit[e].status = 0 THEN "Success" ELSE "Revert", outs[e])
    ELSE IF stack_left[e] = 0 THEN Outcome("OutOfStack", <<>>)
    ELSE IF ink_left(meter[e]) = Exhausted THEN Outcome("OutOfInk", <<>>)
    ELSE IF exit[e].err = "OutOfInk" THEN Outcome("OutOfInk", <<>>)
    ELSE Outcome("Failure", write_err(exit[e].err))

Report(status, output, gas) ==
    [done |-> TRUE, wrote |-> TRUE, status |-> status, output |-> output, gas |-> gas]

\* stylus_call handing the remaining ink back as if it were gas
stylus_call_returns_ink(e) ==
    Report(run_main(e).kind, run_main(e).data,
           IF run_main(e).kind = "OutOfStack" THEN 0 ELSE meter_into(ink_left(meter[e])))

\* stylus_call without the confiscation on OutOfStack
stylus_call_keeps_ink(e) ==
    Report(run_main(e).kind, run_main(e).data,
           ink_to_gas(config, meter_into(ink_left(meter[e]))))

\* stylus_call after run_main (stylus/src/lib.rs)
stylus_call(e) ==
    Report(run_main(e).kind, run_main(e).data,
           ink_to_gas(config, IF run_main(e).kind = "OutOfStack" THEN 0
                              ELSE meter_into(ink_left(meter[e]))))

\* call_user_wasm around exec_wasm (jit/src/user)
call_user_wasm(e) ==
    Report(run_main(e).kind, run_main(e).data,
           ink_to_gas(config, IF run_main(e).kind = "OutOfStack" THEN 0
                              ELSE meter_into(ink_left(meter[e]))))

\* program_call_main: the status word of the entry point, or Failure when
\* the machine trapped inside the program
program_call_main(e) ==
    IF exit[e].err # "" THEN "Failure"
    ELSE IF exit[e].status = 0 THEN "Success" ELSE "Revert"

\* an epilogue that reports the entry point's status without looking at the
\* instrumentation
callUserWasmRustImpl_trusts_status(e) ==
    Report(program_call_main(e), outs[e], ink_to_gas(config, meter[e].ink_left))

\* callUserWasmRustImpl after program_call_main (user-host/src/link.rs)
callUserWasmRustImpl(e) ==
    IF meter[e].ink_status # 0 THEN Report("OutOfInk", <<>>, ink_to_gas(config, 0))
    ELSE IF stack_left[e] = 0 THEN Report("OutOfStack", <<>>, ink_to_gas(config, 0))
    ELSE Report(program_call_main(e), outs[e], ink_to_gas(config, meter[e].ink_left))

Ended(e) ==
    pc[e] \in {"returned", "trapped"}

\* Every engine running the program has left the entry point: each adapter
\* reports status, output and remaining gas.
Finish ==
    /\ \E e \in Active(run) : Ended(e)
    /\ \A e \in Active(run) : Ended(e)
    /\ pc' = [e \in Engines |-> IF Ended(e) THEN "done" ELSE pc[e]]
    /\ result' = [k \in Adapters |->
                    CASE k = "stylus_call" /\ run = "cross" /\ ~result[k].done ->
                            stylus_call("native")
                      [] k = "call_user_wasm" /\ run = "cross" -> call_user_wasm("native")
                      [] k = "replay" /\ "replay" \in Active(run) ->
                            callUserWasmRustImpl("replay")
                      [] k = "userhost" /\ run = "userhost" -> callUserWasmRustImpl("userhost")
                      [] OTHER -> result[k]]
    /\ UNCHANGED <<stackVars, relayVars, codec, auxVars, config, run, gas_in, args, meter, stack_left, mem, outs, ret_len, exit,
                   last, steps, lastOp>>

Next ==
    \/ \E pages_ok \in BOOLEAN : Start(pages_ok)
    \/ \E f \in Imports(run) : \E c \in CallsOf(f) : HostCall(f, c.a, c.r)
    \/ \E ink \in {1, 1000} : WasmOp(ink)
    \/ StackOverflow
    \/ \E status \in {0, 1} : Return(status)
    \/ Finish

Spec ==
    Init /\ [][Next]_vars

(***************************************************************************)
(* Claims about the meter (checked under SpecMeter)                        *)
(***************************************************************************)
LastPre ==
    ink_left(lastOp.pre)

NativeMeter ==
    ink_left(meter["native"])

\* C2: buy_ink(a) on a meter reading Ready(n) with n >= a returns Ok and
\* leaves the meter at Ready(n - a).
C2_BuyInkSucceeds ==
    (lastOp.op = "buy_ink" /\ LastPre.tag = "Ready" /\ LastPre.ink >= lastOp.arg)
        => (lastOp.ok /\ NativeMeter = Ready(LastPre.ink - lastOp.arg))

C2_Witness ==
    /\ lastOp.op = "buy_ink"
    /\ LastPre = Ready(lastOp.arg)
    /\ lastOp.arg > 0
    /\ lastOp.ok
    /\ NativeMeter = Ready(0)

\* C3: buy_ink(a) on a meter reading Ready(n) with n < a fails with OutOfInk
\* and leaves the meter Exhausted, so the next ink_left() reads Exhausted.
C3_BuyInkFailureExhausts ==
    (lastOp.op = "buy_ink" /\ LastPre.tag = "Ready" /\ LastPre.ink < lastOp.arg)
        => (~lastOp.ok /\ NativeMeter = Exhausted)

\* C4: once the meter reads Exhausted, every later buy_ink, buy_gas,
\* require_gas (and copy charge) fails and the meter still reads Exhausted.
C4_ExhaustedIsAbsorbing ==
    (LastPre = Exhausted /\ lastOp.op # "set_ink")
        => (~lastOp.ok /\ NativeMeter = Exhausted)

C4_Witness ==
    /\ LastPre = Exhausted
    /\ lastOp.op \in {"buy_ink", "buy_gas", "require_gas"}
    /\ lastOp.arg = 0
    /\ NativeMeter = Exhausted

\* C8: require_gas(g) never changes the meter and returns Ok exactly when the
\* meter reads Ready(n) with n >= gas_to_ink(g).
C8_RequireGasIsPure ==
    lastOp.op = "require_gas"
        => /\ meter["native"] = lastOp.pre
           /\ lastOp.ok <=> (LastPre.tag = "Ready"
                              /\ LastPre.ink >= gas_to_ink(config, lastOp.arg))

C8_Witness ==
    /\ lastOp.op = "require_gas"
    /\ lastOp.ok
    /\ lastOp.arg > 0
    /\ LastPre.tag = "Ready"
    /\ LastPre.ink = gas_to_ink(config, lastOp.arg)

(***************************************************************************)
(* Claims about runs of programs (checked under Spec)                      *)
(***************************************************************************)
Outward(k) ==
    [status |-> result[k].status, output |-> result[k].output, gas |-> result[k].gas]

\* C1: the native adapters (stylus_call, call_user_wasm) and the replay
\* adapter, given the same program behaviour, calldata, configuration,
\* starting gas and EVM API answers, report the same status, the same output
\* bytes and the same remaining gas.
C1_AdaptersAgree ==
    (run = "cross" /\ result["replay"].done /\ result["stylus_call"].wrote)
        => /\ Outward("stylus_call") = Outward("replay")
           /\ Outward("call_user_wasm") = Outward("replay")

\* C5: every host call, successful or failed, leaves the ink_left counter of
\* the engine lower than or equal to its value before the call.
C5_InkNeverIncreases ==
    \A e \in Engines :
        last[e].f # "none" => meter[e].ink_left <= last[e].pre.ink_left

C5_Witness ==
    /\ last["native"].f = "account_load_bytes32"
    /\ last["native"].err = "OutOfInk"
    /\ meter["native"].ink_left < last["native"].pre.ink_left
    /\ last["replay"].err = "OutOfInk"
    /\ meter["replay"].ink_left < last["replay"].pre.ink_left

\* C6: ink_to_gas(gas_to_ink(g)) <= g for every supplied gas g and every ink
\* price: the gas left right after the adapter bought the starting ink never
\* exceeds the gas it converted, also when the multiplication saturates.
C6_RoundTripNeverGains ==
    \A e \in Engines :
        (Running(e) /\ steps = 0)
            => /\ meter[e] = MeterData(gas_to_ink(config, gas_in), 0)
               /\ gas_left(config, meter[e]) <= gas_in

C6_Witness ==
    /\ Running("native")
    /\ steps = 0
    /\ gas_in = U64Max
    /\ saturating_mul(gas_in, INK_PRICE_UNIT) = U64Max
    /\ gas_left(config, meter["native"]) < gas_in

\* C7: the gas an adapter writes back to its caller is never greater than
\* the gas supplied on entry, whatever the outcome and the host calls made.
C7_GasNeverExceedsSupply ==
    \A k \in Adapters :
        (result[k].done /\ result[k].wrote) => result[k].gas <= gas_in

C7_Witness ==
    /\ result["stylus_call"].wrote
    /\ result["stylus_call"].status = "Success"
    /\ result["stylus_call"].gas > 0
    /\ result["stylus_call"].gas < gas_in
    /\ last["native"].f \in CallFns
    /\ result["replay"].gas = result["stylus_call"].gas

\* whether a meter cannot pay ink
CannotPay(md, ink) ==
    ink_left(md).tag # "Ready" \/ ink_left(md).ink < ink

FetchFns ==
    {"evm_blockhash", "account_load_bytes32", "address_balance", "address_codehash",
     "storage_load_bytes32", "account_balance", "account_codehash"}

\* C10: in the host calls that fetch a value from the EVM API client the
\* returned cost is charged before the value is written to program memory, so
\* that a failing charge leaves the destination memory unchanged.
C10_CostBeforeWrite ==
    \A e \in Engines :
        last[e].f \in FetchFns
            => ((\E i \in 1..Len(last[e].ev) : last[e].ev[i].k = "cost" /\ ~last[e].ev[i].ok)
                    => /\ mem[e] = last[e].premem
                       /\ \A i \in 1..Len(last[e].ev) : last[e].ev[i].k # "write")

(***************************************************************************)
(* Claims about failing host calls                                         *)
(***************************************************************************)
Failed(e) ==
    last[e].f # "none" /\ last[e].err # ""

\* C11: when a host call fails at any of its steps nothing it did survives:
\* ink_left, program memory, the output buffer and the return-data-length
\* cell have the values they had before the call.
C11_NothingSurvives ==
    \A e \in Engines :
        Failed(e)
            => /\ last[e].post.ink_left = last[e].pre.ink_left
               /\ mem[e] = last[e].premem
               /\ outs[e] = last[e].preouts
               /\ ret_len[e] = last[e].preret

\* C11 as amended: a failing host call stops at the failing step -- every
\* step before it succeeded and no step after it ran -- the engine stops the
\* program, and the output buffer keeps the value it had before the call.
C11_FailureShortCircuits ==
    \A e \in Engines :
        Failed(e)
            => /\ Len(last[e].ev) > 0
               /\ ~last[e].ev[Len(last[e].ev)].ok
               /\ \A i \in 1..(Len(last[e].ev) - 1) : last[e].ev[i].ok
               /\ outs[e] = last[e].preouts
               /\ pc[e] \in {"trapped", "done"}

C11_Witness ==
    /\ last["native"].f = "return_data"
    /\ last["native"].err = "Memory"
    /\ Len(last["native"].ev) = 3
    /\ last["native"].preouts # <<>>
    /\ outs["native"] = last["native"].preouts
    /\ last["native"].post.ink_left < last["native"].pre.ink_left
    /\ pc["native"] = "trapped"

StoreFns ==
    {"account_store_bytes32", "storage_store_bytes32"}

\* the ink left once the first charge of the call has been paid
InkAfterOverhead(e) ==
    last[e].pre.ink_left - last[e].ev[1].x

OverheadPaid(e) ==
    Len(last[e].ev) > 0 /\ last[e].ev[1].k = "overhead" /\ last[e].ev[1].ok

NoClientCall(e) ==
    \A i \in 1..Len(last[e].ev) : last[e].ev[i].k # "api"

\* C12: a storage store invoked with gas left (after the hostio overhead)
\* below SSTORE_SENTRY_GAS fails with OutOfInk without calling the client's
\* set_bytes32.
C12_SentryOnGasLeft ==
    \A e \in Engines :
        (/\ last[e].f \in StoreFns
         /\ OverheadPaid(e)
         /\ ink_to_gas(config, InkAfterOverhead(e)) < SSTORE_SENTRY_GAS)
            => last[e].err = "OutOfInk" /\ NoClientCall(e)

\* C12 as amended: a storage store invoked with ink left (after the hostio
\* overhead) below gas_to_ink(SSTORE_SENTRY_GAS) fails with OutOfInk without
\* calling the client's set_bytes32.
C12_SentryOnInkLeft ==
    \A e \in Engines :
        (/\ last[e].f \in StoreFns
         /\ OverheadPaid(e)
         /\ InkAfterOverhead(e) < gas_to_ink(config, SSTORE_SENTRY_GAS))
            => /\ last[e].err = "OutOfInk"
               /\ NoClientCall(e)
               /\ Len(last[e].ev) = 2
               /\ last[e].ev[2] = Event("require", FALSE, SSTORE_SENTRY_GAS)

C12_Witness ==
    /\ last["native"].f = "account_store_bytes32"
    /\ OverheadPaid("native")
    /\ InkAfterOverhead("native") > 0
    /\ InkAfterOverhead("native") < gas_to_ink(config, SSTORE_SENTRY_GAS)
    /\ last["native"].err = "OutOfInk"
    /\ last["replay"].err = "OutOfInk"

(***************************************************************************)
(* Claims about emit_log                                                   *)
(***************************************************************************)
Forwarded(e) ==
    \E i \in 1..Len(last[e].ev) : last[e].ev[i].k = "api"

\* the ink the call took from the meter beyond its first charge
InkBeyondOverhead(e) ==
    InkAfterOverhead(e) - last[e].post.ink_left

ChargesPrecedeClient(e) ==
    \A i, j \in 1..Len(last[e].ev) :
        (last[e].ev[i].k \in {"overhead", "charge", "cost"} /\ last[e].ev[j].k = "api")
            => (i < j /\ last[e].ev[i].ok)

GoodLog(e) ==
    /\ last[e].f = "emit_log"
    /\ ~bad_topic_data(last[e].a.len, last[e].a.n)
    /\ OverheadPaid(e)

TopicGas(e) ==
    (1 + last[e].a.n) * LOG_TOPIC_GAS

DataGas(e) ==
    (last[e].a.len - 32 * last[e].a.n) * LOG_DATA_GAS

\* C13: emit_log with topics <= 4 and len >= 32 * topics charges, on top of
\* the hostio overhead, exactly (1 + topics) * LOG_TOPIC_GAS
\* + (len - 32 * topics) * LOG_DATA_GAS gas and nothing else, and forwards the
\* data to the client only after that charge succeeded.
C13_LogChargeExact ==
    \A e \in Engines :
        (GoodLog(e) /\ Forwarded(e))
            => /\ InkBeyondOverhead(e) \in
                    {gas_to_ink(config, TopicGas(e) + DataGas(e)),
                     gas_to_ink(config, TopicGas(e)) + gas_to_ink(config, DataGas(e))}
               /\ ChargesPrecedeClient(e)

\* C13 as amended: the same, except that the UserHost dispatcher also charges
\* the price of reading len bytes (pay_for_read) before the log gas.
C13_LogChargeWithRead ==
    \A e \in Engines :
        (GoodLog(e) /\ Forwarded(e))
            => /\ InkBeyondOverhead(e) =
                    CASE e = "native" ->
                            gas_to_ink(config, TopicGas(e)) + gas_to_ink(config, DataGas(e))
                      [] e = "replay" -> gas_to_ink(config, TopicGas(e) + DataGas(e))
                      [] OTHER -> read_price(last[e].a.len)
                                  + gas_to_ink(config, TopicGas(e) + DataGas(e))
               /\ ChargesPrecedeClient(e)

C13_Witness ==
    /\ GoodLog("native")
    /\ Forwarded("native")
    /\ last["native"].a.n = 2
    /\ last["native"].a.len = 64
    /\ last["native"].err = ""
    /\ InkBeyondOverhead("native") = gas_to_ink(config, 3 * LOG_TOPIC_GAS)
    /\ InkBeyondOverhead("replay") = InkBeyondOverhead("native")

BadLog(e) ==
    /\ last[e].f = "emit_log"
    /\ (last[e].a.n > 4 \/ last[e].a.len < 32 * last[e].a.n)

\* C14: emit_log with topics > 4 or len < 32 * topics fails before any gas is
\* charged and without calling the client: ink_left after the rejected call
\* equals ink_left before it.
C14_RejectedLogIsFree ==
    \A e \in Engines :
        BadLog(e)
            => /\ last[e].err # ""
               /\ NoClientCall(e)
               /\ last[e].post.ink_left = last[e].pre.ink_left

\* C14 as amended: the rejected emit_log pays the hostio overhead and nothing
\* else, and does not call the client; when the overhead itself cannot be
\* paid the call fails with OutOfInk and the meter keeps its ink.
C14_RejectedLogPaysOverhead ==
    \A e \in Engines :
        BadLog(e)
            => /\ last[e].err # ""
               /\ NoClientCall(e)
               /\ \A i \in 1..Len(last[e].ev) : last[e].ev[i].k \notin {"charge", "cost"}
               /\ IF OverheadPaid(e)
                  THEN /\ last[e].post.ink_left = InkAfterOverhead(e)
                       /\ last[e].ev[1].x > 0
                       /\ Len(last[e].ev) = 2
                       /\ last[e].ev[2].k = "check"
                       /\ last[e].err \in {"Logical", "Panic", "Internal"}
                  ELSE /\ last[e].err = "OutOfInk"
                       /\ last[e].post.ink_left = last[e].pre.ink_left

C14_Witness ==
    /\ BadLog("native")
    /\ last["native"].a.n = 5
    /\ OverheadPaid("native")
    /\ last["native"].err = "Logical"
    /\ last["native"].post.ink_left = last["native"].pre.ink_left - config.hostio_ink
    /\ last["replay"].err = "Panic"

(***************************************************************************)
(* Claims about calls, creates and the return data                         *)
(***************************************************************************)
\* the amount the program asked to hand on, in gas: the UserHost methods
\* take gas, the older host functions take ink
Requested(e) ==
    IF e = "userhost" THEN last[e].a.gas ELSE ink_to_gas(config, last[e].a.gas)

\* whether what the program asked for is within what it has at the call
WithinMeans(e) ==
    IF e = "userhost" THEN last[e].a.gas <= gas_left(config, last[e].at_call)
    ELSE last[e].a.gas <= meter_into(ink_left(last[e].at_call))

\* C15: the gas a call host function hands to the client never exceeds the
\* program's gas left at the moment of the call (after the overhead and the
\* calldata charge), and a smaller request is passed on unchanged; as the gas
\* left never exceeds the gas the run was given, the amounts handed down a
\* chain of nested calls never increase.
C15_ForwardedGasClamped ==
    \A e \in Engines :
        (last[e].f \in CallFns /\ Forwarded(e))
            => /\ last[e].fwd <= gas_left(config, last[e].at_call)
               /\ last[e].fwd <= gas_in
               /\ WithinMeans(e) => last[e].fwd = Requested(e)
               /\ last[e].at_call.ink_left <= InkAfterOverhead(e)

C15_Witness ==
    /\ last["native"].f = "call_contract"
    /\ Forwarded("native")
    /\ last["native"].a.gas = U64Max
    /\ last["native"].fwd > 0
    /\ last["native"].fwd = gas_left(config, last["native"].at_call)
    /\ last["native"].fwd < gas_in
    /\ last["replay"].fwd = last["native"].fwd

\* the four bytes at the pointer the call was given for the length
LenWritten(e) ==
    read_slice(mem[e], last[e].a.q2, 4)

\* C16: after a call host function completes, the return-data-length cell
\* holds the output length the client reported, the same value is at the
\* program's ret_len pointer and a following return_data_size returns it; only
\* the call and create host functions change the cell.
C16_ReturnDataLenRecorded ==
    \A e \in Engines :
        /\ (last[e].f \in CallFns /\ last[e].err = "")
                => /\ ret_len[e] = last[e].r.len
                   /\ LenWritten(e).ok
                   /\ LenWritten(e).data = le_bytes(last[e].r.len)
        /\ (last[e].f = "return_data_size" /\ last[e].err = "")
                => /\ last[e].ret = last[e].preret
                   /\ (last[e].prev.f \in CallFns /\ last[e].prev.ok)
                        => last[e].ret = last[e].prev.len
        /\ last[e].f \notin CallFns \cup CreateFns \cup {"none"}
                => ret_len[e] = last[e].preret

C16_Witness ==
    /\ last["native"].f = "return_data_size"
    /\ last["native"].err = ""
    /\ last["native"].prev.f = "call_contract"
    /\ last["native"].prev.ok
    /\ last["native"].prev.len = 4
    /\ last["native"].ret = 4
    /\ last["replay"].ret = 4

\* C17: return_data_size called twice in a row returns the same value both
\* times.
C17_ReturnDataSizeIdempotent ==
    \A e \in Engines :
        (/\ last[e].f = "return_data_size"
         /\ last[e].err = ""
         /\ last[e].prev.f = "return_data_size"
         /\ last[e].prev.ok)
            => /\ last[e].ret = last[e].prev.ret
               /\ ret_len[e] = last[e].preret

C17_Witness ==
    /\ last["native"].f = "return_data_size"
    /\ last["native"].err = ""
    /\ last["native"].prev.f = "return_data_size"
    /\ last["native"].prev.ok
    /\ last["native"].ret = 4
    /\ last["native"].prev.ret = 4
    /\ last["native"].post.ink_left < last["native"].pre.ink_left

CostCharged(e) ==
    \E i \in 1..Len(last[e].ev) : last[e].ev[i].k = "cost" /\ last[e].ev[i].ok

\* C18: when the client reports that create1 or create2 failed, the host call
\* still charges the reported cost, records the length of the revert payload
\* in the cell and at revert_data_len, and returns to the program without
\* trapping.
C18_FailedCreateReturns ==
    \A e \in Engines :
        (/\ last[e].f \in CreateFns
         /\ Forwarded(e)
         /\ ~last[e].r.ok
         /\ gas_to_ink(config, last[e].r.cost) <= last[e].at_call.ink_left)
            => /\ last[e].err = ""
               /\ last[e].traps = 0
               /\ CostCharged(e)
               /\ ret_len[e] = last[e].r.len
               /\ LenWritten(e).data = le_bytes(last[e].r.len)

\* the host calls whose client operation returns a cost
ReturnsCost(e) ==
    \/ last[e].f \in FetchFns \cup CallFns \cup CreateFns
    \/ last[e].f \in StoreFns /\ last[e].r.ok
    \/ last[e].f = "memory_grow" /\ last[e].a.n # 0

\* C19: for every client operation that returns a cost the dispatcher charges
\* exactly that cost through buy_gas, exactly once, after the operation
\* returned, whatever the outcome it reported; the client call itself leaves
\* the meter alone.
C19_CostChargedOnce ==
    \A e \in Engines :
        (ReturnsCost(e) /\ Forwarded(e))
            => /\ \E i \in 1..Len(last[e].ev) :
                    /\ last[e].ev[i].k = "cost"
                    /\ last[e].ev[i].x = gas_to_ink(config, last[e].r.cost)
                    /\ \A j \in 1..Len(last[e].ev) :
                            /\ last[e].ev[j].k = "cost" => j = i
                            /\ last[e].ev[j].k = "api" => j < i
               /\ CostCharged(e)
                    => last[e].post.ink_left
                         = last[e].at_call.ink_left - gas_to_ink(config, last[e].r.cost)

\* C20: behind hostio!, a host function that returns an error sets the trap
\* flag exactly once and the export returns the default value; one that
\* succeeds does not set it; no failed host call lets the program go on.
C20_TrapOnError ==
    /\ last["userhost"].f # "none"
            => IF last["userhost"].err # ""
               THEN /\ last["userhost"].traps = 1
                    /\ last["userhost"].ret = 0
                    /\ pc["userhost"] \in {"trapped", "done"}
               ELSE last["userhost"].traps = 0
    /\ \A e \in Engines : Failed(e) => ~Running(e)

C20_Witness ==
    /\ last["userhost"].f = "call_contract"
    /\ last["userhost"].err = "Memory"
    /\ Forwarded("userhost")
    /\ last["userhost"].traps = 1
    /\ last["userhost"].ret = 0
    /\ pc["userhost"] = "trapped"


(***************************************************************************)
(* The parts of the state used by Spec and SpecMeter, at rest while the    *)
(* specifications below run.                                               *)
(***************************************************************************)
progVars ==
    <<config, run, gas_in, args, pc, meter, stack_left, mem, outs, ret_len, exit,
      last, result, steps, lastOp>>

IdleProgram ==
    /\ config = [ink_price |-> INK_PRICE_UNIT, hostio_ink |-> 100, max_depth |-> 64,
                 tracing |-> FALSE]
    /\ run = "none"
    /\ gas_in = 0
    /\ pc = [e \in Engines |-> "off"]
    /\ meter = [e \in Engines |-> MeterData(0, 0)]
    /\ lastOp = MeterOp("none", 0, MeterData(0, 0), TRUE)
    /\ Idle

(***************************************************************************)
(* SpecStack: the replay adapter's stack of Programs under re-entrant      *)
(* invocations.  callUserWasmRustImpl pushes a Program, calls the entry    *)
(* point and pops; while the entry point runs, the module issues host      *)
(* calls, and a call/create host call reaches the EVM API client, through  *)
(* which the host may invoke callUserWasmRustImpl again.  The stack itself *)
(* (PROGRAMS, Program::current) is declared outside the sources at hand    *)
(* and is modelled from the specification.                                 *)
(***************************************************************************)
\* nested activations of callUserWasmRustImpl
MaxDepth ==
    3

\* Programs created in one behaviour
MaxPrograms ==
    4

\* the user modules that can be linked
Modules ==
    {"A", "B"}

\* Vec::push
push(stack, program) ==
    Append(stack, program)

\* a pop that leaves the Program on the stack
pop_leaves(stack) ==
    stack

\* Vec::pop: the stack without its last Program
pop(stack) ==
    SubSeq(stack, 1, Len(stack) - 1)

\* Program::current: the top of the stack
current(stack) ==
    stack[Len(stack)]

\* the innermost activation of callUserWasmRustImpl
Innermost ==
    calls[Len(calls)]

\* callUserWasmRustImpl up to program_call_main: the module is linked, the
\* Program is pushed and the entry point is entered.  The adapter is called
\* by the host, at top level or from inside a call/create host call of the
\* program that is running.
EnterProgram(module) ==
    /\ Len(calls) < MaxDepth
    /\ pushed < MaxPrograms
    /\ IF calls = <<>> THEN TRUE ELSE Innermost.in_call
    /\ pushed' = pushed + 1
    /\ PROGRAMS' = push(PROGRAMS, [id |-> pushed + 1, module |-> module])
    /\ calls' = Append(calls, [module |-> module, entry_depth |-> Len(PROGRAMS),
                               program |-> pushed + 1, in_call |-> FALSE])
    /\ UNCHANGED <<served, returned, relayVars, codec, auxVars, progVars>>

\* hostio!: a host call of the running module that stays inside the
\* dispatcher, served against Program::current()
Hostio ==
    /\ calls # <<>>
    /\ ~Innermost.in_call
    /\ served' = [module |-> Innermost.module, issuer |-> Innermost.program,
                  program |-> current(PROGRAMS).id]
    /\ UNCHANGED <<PROGRAMS, calls, pushed, returned, relayVars, codec, auxVars, progVars>>

\* hostio! for call_contract / delegate / static / create: the call is served
\* against Program::current() and handed to the EVM API client
HostioCall ==
    /\ calls # <<>>
    /\ ~Innermost.in_call
    /\ served' = [module |-> Innermost.module, issuer |-> Innermost.program,
                  program |-> current(PROGRAMS).id]
    /\ calls' = [calls EXCEPT ![Len(calls)].in_call = TRUE]
    /\ UNCHANGED <<PROGRAMS, pushed, returned, relayVars, codec, auxVars, progVars>>

\* the EVM API client answers and the host call returns to the module
HostioCallReturns ==
    /\ calls # <<>>
    /\ Innermost.in_call
    /\ calls' = [calls EXCEPT ![Len(calls)].in_call = FALSE]
    /\ UNCHANGED <<PROGRAMS, pushed, served, returned, relayVars, codec, auxVars, progVars>>

\* program_call_main returns (the entry point returned its status, or the
\* machine trapped inside the module and reports Failure) and
\* callUserWasmRustImpl pops the Program and finishes.
LeaveProgram(status) ==
    /\ calls # <<>>
    /\ ~Innermost.in_call
    /\ PROGRAMS' = pop(PROGRAMS)
    /\ calls' = SubSeq(calls, 1, Len(calls) - 1)
    /\ returned' = [n |-> returned.n + 1, entry_depth |-> Innermost.entry_depth,
                    exit_depth |-> Len(PROGRAMS'), pushed |-> Innermost.program,
                    popped |-> current(PROGRAMS).id, status |-> status,
                    current |-> IF PROGRAMS' = <<>> THEN 0 ELSE current(PROGRAMS').id,
                    caller |-> IF Len(calls) = 1 THEN 0 ELSE calls[Len(calls) - 1].program]
    /\ UNCHANGED <<pushed, served, relayVars, codec, auxVars, progVars>>

InitStack ==
    /\ IdleProgram
    /\ IdleStack
    /\ IdleRelay
    /\ IdleCodec
    /\ IdleAux

NextStack ==
    \/ \E module \in Modules : EnterProgram(module)
    \/ Hostio
    \/ HostioCall
    \/ HostioCallReturns
    \/ \E status \in {"Success", "Revert", "Failure"} : LeaveProgram(status)

SpecStack ==
    InitStack /\ [][NextStack]_vars

\* C21: each replay-adapter invocation pushes exactly one Program before the
\* entry point is called and pops exactly that Program after it returns,
\* whatever the status: the stack is as deep as the nesting of invocations,
\* the depth on return equals the depth on entry, the caller's Program is
\* current again after a nested invocation, and every host call is served
\* by the Program of the module that issued it.
C21_StackFollowsInvocations ==
    /\ Len(PROGRAMS) = Len(calls)
    /\ \A i \in 1..Len(calls) :
        /\ i <= Len(PROGRAMS)
        /\ PROGRAMS[i].id = calls[i].program
        /\ PROGRAMS[i].module = calls[i].module
        /\ calls[i].entry_depth = i - 1
    /\ returned.n > 0
        => /\ returned.exit_depth = returned.entry_depth
           /\ returned.popped = returned.pushed
           /\ returned.current = returned.caller
    /\ served.module # "none" => served.program = served.issuer

C21_Witness ==
    /\ Len(calls) = 1
    /\ returned.n >= 2
    /\ returned.status = "Failure"
    /\ returned.entry_depth = 1
    /\ returned.caller = calls[1].program
    /\ served.issuer = calls[1].program
    /\ served.program = returned.caller
    /\ served.module # PROGRAMS[1].module \/ pushed > 2
    /\ ~calls[1].in_call


(***************************************************************************)
(* Claims about the adapters' epilogues (checked under Spec)               *)
(***************************************************************************)
\* C22: in the replay adapter, after the entry point returns, a non-zero
\* ink_status is reported as OutOfInk; otherwise a stack_left of 0 is
\* reported as OutOfStack; only otherwise the program's own status is
\* reported with its output and remaining ink.  In both exhaustion cases the
\* gas reported is 0 and no output is returned, whatever the entry point
\* returned.
C22_ExhaustionOverridesStatus ==
    \A e \in {"replay", "userhost"} :
        result[e].done
            => IF meter[e].ink_status # 0
               THEN /\ result[e].status = "OutOfInk"
                    /\ result[e].gas = 0
                    /\ result[e].output = <<>>
               ELSE IF stack_left[e] = 0
               THEN /\ result[e].status = "OutOfStack"
                    /\ result[e].gas = 0
                    /\ result[e].output = <<>>
               ELSE /\ result[e].status \in {"Success", "Revert", "Failure"}
                    /\ exit[e].err = "" => result[e].status = (IF exit[e].status = 0
                                                               THEN "Success" ELSE "Revert")
                    /\ exit[e].err # "" => result[e].status = "Failure"
                    /\ result[e].output = outs[e]
                    /\ result[e].gas = ink_to_gas(config, meter[e].ink_left)

C22_Witness ==
    /\ result["replay"].done
    /\ meter["replay"].ink_status # 0
    /\ stack_left["replay"] > 0
    /\ outs["replay"] # <<>>
    /\ result["replay"].status = "OutOfInk"
    /\ result["replay"].gas = 0
    /\ result["replay"].output = <<>>


MaxCalls ==
    2

\* what run_main can return: Ok(UserOutcome) of the five kinds, or Err
Outcomes ==
    {"Success", "Revert", "Failure", "OutOfInk", "OutOfStack", "Err"}

\* the events of kind k about request n in the relay's history
Events(k, n) ==
    {i \in 1..Len(relay) : relay[i] = <<k, n>>}

\* a JitApi::call that returns as soon as its request is taken
JitApi_call_returns_early(w) ==
    [w EXCEPT !.pc = "run"]

\* JitApi::call once parent.send has completed: the worker waits in
\* rx.recv() for the response to this request
JitApi_call(w) ==
    [w EXCEPT !.pc = "recv"]

\* a receive that waits for a message however long it takes
recv_blocking(sender) ==
    IF sender \in {"send_call", "send_panic", "send_done"} THEN "Msg"
    ELSE IF sender \in {"panicked", "exited"} THEN "Disconnected"
    ELSE "Blocked"

\* rx.recv_timeout(15 s) given what the worker is doing: a message when the
\* worker is sending, Disconnected when the worker is gone and every sender
\* was dropped, Timeout when the worker is alive and sends nothing in time
recv_timeout(sender) ==
    IF sender \in {"send_call", "send_panic", "send_done"} THEN "Msg"
    ELSE IF sender \in {"panicked", "exited"} THEN "Disconnected"
    ELSE "Timeout"

\* a Call arm that dispatches the host function twice
CallArm_twice(dispatch) ==
    CASE dispatch = "ok" -> [dispatched |-> 2, responded |-> TRUE, err |-> ""]
      [] dispatch = "wrong type" -> [dispatched |-> 2, responded |-> TRUE, err |-> ""]
      [] dispatch = "missing func" -> [dispatched |-> 0, responded |-> FALSE, err |-> dispatch]
      [] OTHER -> [dispatched |-> 2, responded |-> FALSE, err |-> dispatch]

\* The Call arm of the relay loop: the host function is looked up, run by
\* sp.resume and its result array is sent on the request's response channel;
\* each bail! leaves the arm, and exec_wasm, with an error.
CallArm(dispatch) ==
    CASE dispatch = "ok" -> [dispatched |-> 1, responded |-> TRUE, err |-> ""]
      [] dispatch = "wrong type" -> [dispatched |-> 1, responded |-> TRUE, err |-> ""]
      [] dispatch = "missing func" -> [dispatched |-> 0, responded |-> FALSE, err |-> dispatch]
      [] OTHER -> [dispatched |-> 1, responded |-> FALSE, err |-> dispatch]

\* a Done arm that goes on receiving
DoneArm_keeps_serving(o) ==
    [o EXCEPT !.pc = "recv"]

\* the Done arm: break, then handle.join()
DoneArm(o) ==
    [o EXCEPT !.pc = "join"]

\* call_user_wasm after exec_wasm has returned (jit/src/user/mod.rs): an Err
\* of exec_wasm leaves through `?` as Escape::Child, with neither status nor
\* gas written; otherwise the outcome's kind (Failure for an Err of run_main)
\* and ink_to_gas(ink_left) are written.
call_user_wasm_writes(res) ==
    IF res.kind = "Err"
    THEN [res EXCEPT !.status = "", !.wrote_gas = FALSE]
    ELSE [res EXCEPT !.status = IF res.outcome = "Err" THEN "Failure" ELSE res.outcome,
                     !.wrote_gas = TRUE, !.gas = ink_to_gas(config, res.ink_left)]

\* a bail! after which the loop goes on receiving
Bail_keeps_receiving(error) ==
    [owner EXCEPT !.pc = "recv"]

\* exec_wasm returns Err(error) to call_user_wasm
Bail(error) ==
    [pc |-> "returned", served |-> owner.served, timeouts |-> owner.timeouts,
     result |-> call_user_wasm_writes([NoReturn EXCEPT !.kind = "Err", !.error = error])]

\* The worker deserializes the module; on failure it goes to send Panic.
Instantiate(ok) ==
    /\ worker.pc = "spawned"
    /\ worker' = [worker EXCEPT !.pc = IF ok THEN "run" ELSE "send_panic"]
    /\ UNCHANGED <<owner, relay, stackVars, codec, auxVars, progVars>>

\* The program calls the EVM API: JitApi::call makes the response channel
\* and sends Call on the parent channel.
WorkerCalls ==
    /\ worker.pc = "run"
    /\ worker.calls < MaxCalls
    /\ worker' = [worker EXCEPT !.pc = "send_call", !.calls = worker.calls + 1]
    /\ relay' = Append(relay, <<"call", worker.calls + 1>>)
    /\ UNCHANGED <<owner, stackVars, codec, auxVars, progVars>>

\* run_main returns; the worker goes to send Done.
RunMainReturns(outcome, ink) ==
    /\ worker.pc = "run"
    /\ worker' = [worker EXCEPT !.pc = "send_done", !.outcome = outcome,
                                !.ink_left = IF outcome = "OutOfStack" THEN 0 ELSE ink]
    /\ UNCHANGED <<owner, relay, stackVars, codec, auxVars, progVars>>

\* After Done was taken the worker closure returns (outcome, ink_left).
WorkerExits ==
    /\ worker.pc = "finishing"
    /\ worker' = [worker EXCEPT !.pc = "exited"]
    /\ UNCHANGED <<owner, relay, stackVars, codec, auxVars, progVars>>

\* a channel whose blocked side is not woken when the other end is dropped
disconnected_never(peer) ==
    FALSE

\* what the worker's tx.send, parent.send or rx.recv finds once exec_wasm
\* has returned: rx, and the respond sender of a taken request, are locals of
\* exec_wasm and dropped with it, so the operation returns Err
disconnected(peer) ==
    peer = "returned"

\* A send or a recv of the worker finds the other end dropped, because
\* exec_wasm has returned: the unwrap panics.
WorkerUnwrapPanics ==
    /\ worker.pc \in {"send_call", "send_panic", "send_done", "recv"}
    /\ disconnected(owner.pc)
    /\ worker' = [worker EXCEPT !.pc = "panicked"]
    /\ UNCHANGED <<owner, relay, stackVars, codec, auxVars, progVars>>

\* rx.recv_timeout returns a message and the loop matches it.
Receive ==
    /\ owner.pc = "recv"
    /\ recv_timeout(worker.pc) = "Msg"
    /\ CASE worker.pc = "send_call" ->
              /\ worker' = JitApi_call(worker)
              /\ owner' = [owner EXCEPT !.pc = "serve", !.served = worker.calls]
              /\ relay' = Append(relay, <<"taken", worker.calls>>)
         [] worker.pc = "send_panic" ->
              /\ worker' = [worker EXCEPT !.pc = "panicked"]
              /\ owner' = Bail("failed to instantiate program")
              /\ relay' = Append(relay, <<"panic", 0>>)
         [] OTHER ->
              /\ worker' = [worker EXCEPT !.pc = "finishing"]
              /\ owner' = DoneArm(owner)
              /\ relay' = Append(relay, <<"done", 0>>)
    /\ UNCHANGED <<stackVars, codec, auxVars, progVars>>

\* rx.recv_timeout returns Err: no message in time, or no sender left.
ReceiveFails ==
    /\ owner.pc = "recv"
    /\ recv_timeout(worker.pc) \in {"Timeout", "Disconnected"}
    /\ owner' = [Bail(recv_timeout(worker.pc)) EXCEPT
                    !.timeouts = IF recv_timeout(worker.pc) = "Timeout" THEN 1 ELSE 0]
    /\ UNCHANGED <<worker, relay, stackVars, codec, auxVars, progVars>>

\* The Call arm serves the request it took.  The worker is in rx.recv(), so
\* respond.send completes at once; a response of the wrong shape makes the
\* worker panic in call! or in an assert_* of JitApi.
Serve(dispatch) ==
    /\ owner.pc = "serve"
    /\ worker.pc = "recv" \/ ~CallArm(dispatch).responded
    /\ relay' = relay
                \o [i \in 1..CallArm(dispatch).dispatched |-> <<"dispatch", owner.served>>]
                \o (IF CallArm(dispatch).responded THEN << <<"respond", owner.served>> >>
                    ELSE <<>>)
    /\ owner' = IF CallArm(dispatch).err = "" THEN [owner EXCEPT !.pc = "recv"]
                ELSE Bail(CallArm(dispatch).err)
    /\ worker' = IF ~CallArm(dispatch).responded THEN worker
                 ELSE IF dispatch = "wrong type"
                 THEN [worker EXCEPT !.pc = "panicked", !.got = owner.served]
                 ELSE [worker EXCEPT !.pc = "run", !.got = owner.served]
    /\ UNCHANGED <<stackVars, codec, auxVars, progVars>>

\* handle.join() returns the worker's pair and exec_wasm returns Ok.
Join ==
    /\ owner.pc = "join"
    /\ worker.pc = "exited"
    /\ owner' = [owner EXCEPT !.pc = "returned",
                    !.result = call_user_wasm_writes(
                        [NoReturn EXCEPT !.kind = "Ok", !.outcome = worker.outcome,
                                         !.ink_left = worker.ink_left])]
    /\ UNCHANGED <<worker, relay, stackVars, codec, auxVars, progVars>>

\* exec_wasm has spawned the worker and entered the loop
InitRelay ==
    /\ IdleProgram
    /\ IdleStack
    /\ IdleCodec
    /\ IdleAux
    /\ worker = [pc |-> "spawned", calls |-> 0, got |-> 0, outcome |-> "", ink_left |-> 0]
    /\ owner = [pc |-> "recv", served |-> 0, result |-> NoReturn, timeouts |-> 0]
    /\ relay = <<>>

OwnerStep ==
    \/ Receive
    \/ ReceiveFails
    \/ \E dispatch \in {"ok", "wrong type", "missing func", "no return value"} : Serve(dispatch)
    \/ Join

NextRelay ==
    \/ \E ok \in BOOLEAN : Instantiate(ok)
    \/ WorkerCalls
    \/ \E outcome \in Outcomes : \E ink \in {0, 500} : RunMainReturns(outcome, ink)
    \/ WorkerExits
    \/ WorkerUnwrapPanics
    \/ OwnerStep

SpecRelay ==
    InitRelay /\ [][NextRelay]_vars

\* The owning thread is scheduled, and a worker that has sent Done returns;
\* the program itself may run for any time between two messages.
SpecRelayLive ==
    SpecRelay /\ WF_vars(OwnerStep) /\ WF_vars(WorkerExits)

\* A channel operation of the worker on a channel whose other end was
\* dropped returns; nothing else is assumed about either thread.
SpecRelayAbandoned ==
    SpecRelay /\ WF_vars(WorkerUnwrapPanics)


(***************************************************************************)
(* Claims about the relay (checked under SpecRelay and SpecRelayLive)      *)
(***************************************************************************)
FiveKinds ==
    {"Success", "Revert", "Failure", "OutOfInk", "OutOfStack"}

\* C24: every engine-level failure (failure to instantiate, an error of
\* run_main, a worker panic, a relay timeout or dispatch error) is reported
\* to the embedding host as one of the five outcome kinds together with a
\* remaining-gas value; an error of run_main is reported as Failure.
C24_EngineFailuresTranslated ==
    owner.pc = "returned"
        => /\ owner.result.status \in FiveKinds
           /\ owner.result.wrote_gas
           /\ owner.result.outcome = "Err" => owner.result.status = "Failure"

\* C25: requests and responses strictly alternate: at most one request of
\* the worker is unanswered at any time, and the worker sends no Call before
\* it has received the response to the one before.
C25_RequestsAlternate ==
    /\ Cardinality({n \in 1..worker.calls : Events("respond", n) = {}}) <= 1
    /\ \A i \in 1..Len(relay) :
        (relay[i][1] = "call" /\ relay[i][2] > 1)
            => \E j \in 1..(i - 1) : relay[j] = <<"respond", relay[i][2] - 1>>
    /\ \A i \in 1..Len(relay) :
        relay[i][1] = "call" => Cardinality(Events("call", relay[i][2])) = 1
    /\ worker.pc = "send_call" => worker.got = worker.calls - 1
    /\ owner.pc = "serve" => (worker.pc = "recv" /\ owner.served = worker.calls)

C25_Witness ==
    /\ worker.pc = "send_call"
    /\ worker.calls = 2
    /\ worker.got = 1
    /\ relay = << <<"call", 1>>, <<"taken", 1>>, <<"dispatch", 1>>, <<"respond", 1>>,
                  <<"call", 2>> >>
    /\ owner.pc = "recv"

\* C26: every Call the worker sends while the relay is running is dispatched
\* to the host function exactly once and receives exactly one response, on
\* its own response channel: no request is served twice, a request without a
\* response is either still being served or ended the relay with an error,
\* and the response the worker receives is the one to its last request.
C26_ExactlyOnce ==
    /\ \A n \in 1..worker.calls :
        /\ Cardinality(Events("taken", n)) <= 1
        /\ Cardinality(Events("dispatch", n)) <= 1
        /\ Cardinality(Events("respond", n)) <= 1
        /\ \A i \in Events("respond", n) : \E j \in Events("dispatch", n) : j < i
        /\ \A i \in Events("dispatch", n) : \E j \in Events("taken", n) : j < i
        /\ Events("respond", n) = {}
            => /\ n = worker.calls
               /\ \/ owner.pc \in {"recv", "serve"} /\ worker.pc \in {"send_call", "recv"}
                  \/ owner.pc = "returned" /\ owner.result.kind = "Err"
        /\ Events("respond", n) # {} => worker.got >= n
    /\ worker.got <= worker.calls
    /\ worker.got > 0 => Events("respond", worker.got) # {}
    /\ worker.pc \in {"run", "send_done", "finishing", "exited"} => worker.got = worker.calls

C26_Witness ==
    /\ worker.calls = 2
    /\ worker.got = 2
    /\ Cardinality(Events("dispatch", 1)) = 1
    /\ Cardinality(Events("dispatch", 2)) = 1
    /\ Cardinality(Events("respond", 1)) = 1
    /\ Cardinality(Events("respond", 2)) = 1
    /\ owner.pc = "returned"
    /\ owner.result.kind = "Ok"

\* whether deserializing the module failed on the worker
InstantiateFailed ==
    \/ worker.pc = "send_panic"
    \/ worker.pc = "panicked" /\ worker.calls = 0 /\ worker.outcome = ""

\* C27: if instantiation fails on the worker, the worker sends Panic(message)
\* and nothing else, and exec_wasm, on receiving it, returns an error
\* carrying that message, without serving any request and without reporting
\* a program outcome.
C27_PanicEndsRelay ==
    /\ InstantiateFailed
        => /\ \A i \in 1..Len(relay) : relay[i] = <<"panic", 0>>
           /\ owner.served = 0
           /\ owner.result.kind # "Ok"
           /\ owner.result.outcome = ""
           /\ owner.result.status = ""
           /\ owner.pc \in {"recv", "returned"}
           /\ owner.pc = "returned" => owner.result.kind = "Err"
    /\ Events("panic", 0) # {}
        => /\ InstantiateFailed
           /\ relay = << <<"panic", 0>> >>
           /\ worker.pc = "panicked"
           /\ owner.pc = "returned"
           /\ owner.result.kind = "Err"
           /\ owner.result.error = "failed to instantiate program"

C27_Witness ==
    /\ relay = << <<"panic", 0>> >>
    /\ worker.pc = "panicked"
    /\ owner.pc = "returned"
    /\ owner.result.error = "failed to instantiate program"
    /\ ~owner.result.wrote_gas

\* C28: the worker sends Done only after run_main has returned, so no Call
\* follows Done; on receiving Done the owning thread stops serving, joins the
\* worker and returns the worker's (outcome, ink_left), and it returns a
\* program outcome in no other way.
C28_DoneEndsRelay ==
    /\ worker.pc \in {"send_done", "finishing", "exited"} => worker.outcome \in Outcomes
    /\ worker.outcome = "" => Events("done", 0) = {}
    /\ \A i \in Events("done", 0) : i = Len(relay)
    /\ Events("done", 0) # {}
        => /\ owner.pc \in {"join", "returned"}
           /\ worker.pc \in {"finishing", "exited"}
           /\ owner.pc = "returned"
                => /\ worker.pc = "exited"
                   /\ owner.result.kind = "Ok"
                   /\ owner.result.outcome = worker.outcome
                   /\ owner.result.ink_left = worker.ink_left
    /\ owner.result.kind = "Ok" => Events("done", 0) # {}
    /\ owner.result.outcome # "" => owner.result.kind = "Ok"

C28_Witness ==
    /\ owner.pc = "returned"
    /\ owner.result.kind = "Ok"
    /\ owner.result.outcome = "Revert"
    /\ owner.result.ink_left = 500
    /\ worker.calls = 1
    /\ relay[Len(relay)] = <<"done", 0>>
    /\ relay[Len(relay) - 1] = <<"respond", 1>>

\* C29: exec_wasm never blocks forever waiting for the worker: it returns in
\* every behaviour, and when no message arrived within the receive timeout,
\* or the worker died without sending Done or Panic, it returns an error.
C29_ExecWasmReturns ==
    /\ <>(owner.pc = "returned")
    /\ [](owner.timeouts > 0 => (owner.pc = "returned" /\ owner.result.kind = "Err"))
    /\ []((owner.pc = "returned" /\ Events("done", 0) = {}) => owner.result.kind = "Err")

C29_Witness ==
    /\ owner.pc = "returned"
    /\ owner.timeouts = 1
    /\ owner.result.error = "Timeout"
    /\ worker.pc = "run"
    /\ worker.calls = 1
    /\ worker.got = 1


(***************************************************************************)
(* SpecCodec: the call-response envelope (jit/src/user/evm_api.rs).  An    *)
(* ApiValueKind is turned into an ApiValue, the bytes that cross the       *)
(* channel, and back.                                                      *)
(***************************************************************************)
\* a discriminant that gives String the tag of Bytes
discriminant_collides(kind) ==
    CASE kind = "U32" -> 0
      [] kind = "U64" -> 1
      [] kind = "Bytes" -> 2
      [] kind = "Bytes20" -> 3
      [] kind = "Bytes32" -> 4
      [] kind = "String" -> 2
      [] OTHER -> 6

\* ApiValueKind::discriminant
discriminant(kind) ==
    CASE kind = "U32" -> 0
      [] kind = "U64" -> 1
      [] kind = "Bytes" -> 2
      [] kind = "Bytes20" -> 3
      [] kind = "Bytes32" -> 4
      [] kind = "String" -> 5
      [] OTHER -> 6

\* uN::to_be_bytes: the width bytes of x, most significant first
to_be_bytes(x, width) ==
    [i \in 1..width |->
        IF width - i >= 4 THEN 0 ELSE (x \div (256 ^ (width - i))) % 256]

\* uN::from_be_bytes
RECURSIVE from_be_bytes(_)
from_be_bytes(bytes) ==
    IF bytes = <<>> THEN 0
    ELSE from_be_bytes(SubSeq(bytes, 1, Len(bytes) - 1)) * 256 + bytes[Len(bytes)]

\* String::as_bytes: the UTF-8 encoding of the characters (one byte below
\* U+0080, two bytes below U+0800)
RECURSIVE as_bytes(_)
as_bytes(chars) ==
    IF chars = <<>> THEN <<>>
    ELSE (IF chars[1] < 128 THEN <<chars[1]>>
          ELSE <<192 + (chars[1] \div 64), 128 + (chars[1] % 64)>>) \o as_bytes(Tail(chars))

\* String::from_utf8: the characters, or an error for bytes that are not
\* UTF-8 (a lone continuation byte, a truncated or overlong sequence)
RECURSIVE from_utf8(_)
from_utf8(bytes) ==
    IF bytes = <<>> THEN [ok |-> TRUE, chars |-> <<>>]
    ELSE IF bytes[1] < 128
    THEN LET rest == from_utf8(Tail(bytes))
         IN  [ok |-> rest.ok, chars |-> <<bytes[1]>> \o rest.chars]
    ELSE IF bytes[1] >= 194 /\ bytes[1] < 224 /\ Len(bytes) >= 2
            /\ bytes[2] >= 128 /\ bytes[2] < 192
    THEN LET rest == from_utf8(SubSeq(bytes, 3, Len(bytes)))
         IN  [ok |-> rest.ok,
              chars |-> <<(bytes[1] - 192) * 64 + (bytes[2] - 128)>> \o rest.chars]
    ELSE [ok |-> FALSE, chars |-> <<>>]

\* From<ApiValueKind> for ApiValue: the discriminant byte, then the payload
ApiValue_from(value) ==
    <<discriminant(value.kind)>>
    \o CASE value.kind = "U32" -> to_be_bytes(value.n, 4)
         [] value.kind = "U64" -> to_be_bytes(value.n, 8)
         [] value.kind = "String" -> as_bytes(value.b)
         [] value.kind = "Nil" -> <<>>
         [] OTHER -> value.b

\* From<ApiValue> for ApiValueKind: the first byte selects the kind; a
\* payload of the wrong width, bytes that are not UTF-8 and an unknown tag
\* panic (unwrap, unreachable!)
ApiValueKind_from(wire) ==
    CASE wire[1] = 0 /\ Len(wire) = 5 ->
            [kind |-> "U32", n |-> from_be_bytes(Tail(wire)), b |-> <<>>]
      [] wire[1] = 1 /\ Len(wire) = 9 ->
            [kind |-> "U64", n |-> from_be_bytes(Tail(wire)), b |-> <<>>]
      [] wire[1] = 2 -> [kind |-> "Bytes", n |-> 0, b |-> Tail(wire)]
      [] wire[1] = 3 /\ Len(wire) = 21 -> [kind |-> "Bytes20", n |-> 0, b |-> Tail(wire)]
      [] wire[1] = 4 /\ Len(wire) = 33 -> [kind |-> "Bytes32", n |-> 0, b |-> Tail(wire)]
      [] wire[1] = 5 /\ from_utf8(Tail(wire)).ok ->
            [kind |-> "String", n |-> 0, b |-> from_utf8(Tail(wire)).chars]
      [] wire[1] = 6 -> [kind |-> "Nil", n |-> 0, b |-> <<>>]
      [] OTHER -> [kind |-> "panic", n |-> 0, b |-> <<>>]

\* the typed values sent through the envelope
ApiValueKinds ==
    [kind : {"U32"}, n : {0, 1, 255, 256, 65536, 16777217, 2147483647}, b : {<<>>}]
    \cup [kind : {"U64"}, n : {0, 1, 255, 256, 2300, 16777216, U64Max}, b : {<<>>}]
    \cup [kind : {"Bytes"}, n : {0},
          b : {<<>>, <<0>>, <<5>>, <<6, 0>>, <<65>>, <<195, 169>>, <<255, 0, 1>>,
               Rep(0, 4), Rep(0, 8), Rep(7, 20), Rep(7, 32)}]
    \cup [kind : {"Bytes20"}, n : {0},
          b : {Rep(0, 20), Rep(1, 20), Rep(255, 20), <<3>> \o Rep(0, 19), Rep(0, 19) \o <<3>>}]
    \cup [kind : {"Bytes32"}, n : {0},
          b : {Rep(0, 32), Rep(1, 32), Rep(255, 32), <<4>> \o Rep(0, 31), Rep(0, 31) \o <<4>>}]
    \cup [kind : {"String"}, n : {0},
          b : {<<>>, <<65>>, <<233>>, <<65, 233>>, <<233, 65, 127>>, <<128>>, <<2047>>,
               <<0, 0, 0, 0>>}]
    \cup [kind : {"Nil"}, n : {0}, b : {<<>>}]

InitCodec ==
    /\ IdleProgram
    /\ IdleStack
    /\ IdleRelay
    /\ IdleAux
    /\ \E value \in ApiValueKinds :
        codec = [phase |-> "value", value |-> value, wire |-> <<>>,
                 back |-> [kind |-> "Nil", n |-> 0, b |-> <<>>]]

\* value.into(): the sender builds the ApiValue
Encode ==
    /\ codec.phase = "value"
    /\ codec' = [codec EXCEPT !.phase = "wire", !.wire = ApiValue_from(codec.value)]
    /\ UNCHANGED <<stackVars, relayVars, progVars, auxVars>>

\* x.map(Into::into): the receiver reads the ApiValue
Decode ==
    /\ codec.phase = "wire"
    /\ codec' = [codec EXCEPT !.phase = "back", !.back = ApiValueKind_from(codec.wire)]
    /\ UNCHANGED <<stackVars, relayVars, progVars, auxVars>>

NextCodec ==
    \/ Encode
    \/ Decode

SpecCodec ==
    InitCodec /\ [][NextCodec]_vars

\* C30: for every typed value v of the envelope, encoding v into an ApiValue
\* and decoding it back yields v, the first byte of the encoding is v's
\* discriminant (0 to 6), and two values with different tags never have the
\* same encoding.
C30_EnvelopeRoundTrip ==
    /\ codec.phase \in {"wire", "back"}
        => /\ codec.wire = ApiValue_from(codec.value)
           /\ codec.wire[1] = discriminant(codec.value.kind)
           /\ codec.wire[1] \in 0..6
           /\ \A other \in ApiValueKinds :
                other.kind # codec.value.kind => ApiValue_from(other) # codec.wire
    /\ codec.phase = "back" => codec.back = codec.value

C30_Witness ==
    /\ codec.phase = "back"
    /\ codec.value.kind = "String"
    /\ codec.value.b = <<233, 65, 127>>
    /\ codec.wire = <<5, 195, 169, 65, 127>>
    /\ codec.back = codec.value

(***************************************************************************)
(* SpecClient: the two EvmApi clients.  JitApi (jit/src/user/evm_api.rs)   *)
(* reads the host's answer from the relay as a list of ApiValues; GoApi    *)
(* (stylus/src/evm_api.rs) reads it from the status and the out-parameters *)
(* of a foreign function.                                                   *)
(***************************************************************************)

\* the longest list of values the host answers with
MaxOuts ==
    3

\* the client's thread panicked
Panics ==
    [NoRet EXCEPT !.end = "panic"]

\* From<EvmApiStatus> for UserOutcomeKind
EvmApiStatus_into_failure(status) ==
    IF status = "Success" THEN "Success" ELSE "Failure"

EvmApiStatus_into(status) ==
    IF status = "Success" THEN "Success" ELSE "Revert"

\* ApiValueKind::assert_*: the payload of the expected kind, else a panic
assert_u32_lenient(v) ==
    [ok |-> v.kind \in {"U32", "U64"}, value |-> v.n]

assert_u32(v) ==
    [ok |-> v.kind = "U32", value |-> v.n]

assert_u64(v) ==
    [ok |-> v.kind = "U64", value |-> v.n]

assert_bytes(v) ==
    [ok |-> v.kind = "Bytes", value |-> v.b]

assert_bytes32(v) ==
    [ok |-> v.kind = "Bytes32", value |-> v.b]

assert_status(v) ==
    [ok |-> v.kind \in {"Nil", "String"},
     value |-> EvmApiStatus_into(IF v.kind = "Nil" THEN "Success" ELSE "Failure")]

\* call!: outs.try_into().unwrap() panics unless there are exactly num
\* values; x.map(Into::into) panics on a value without a tag byte and on
\* whatever From<ApiValue> panics on
call_macro(resp, num) ==
    IF Len(resp) # num THEN [panic |-> TRUE, x |-> <<>>]
    ELSE LET x == [i \in 1..num |->
                     IF resp[i] = <<>> THEN [kind |-> "panic", n |-> 0, b |-> <<>>]
                     ELSE ApiValueKind_from(resp[i])]
         IN  [panic |-> \E i \in 1..num : x[i].kind = "panic", x |-> x]

JitApi_get_bytes32(resp) ==
    LET c == call_macro(resp, 2)
    IN  IF c.panic THEN Panics
        ELSE IF ~assert_bytes32(c.x[1]).ok \/ ~assert_u64(c.x[2]).ok THEN Panics
        ELSE [NoRet EXCEPT !.end = "ok", !.bytes = assert_bytes32(c.x[1]).value,
                           !.cost = assert_u64(c.x[2]).value]

JitApi_set_bytes32(resp) ==
    LET c == call_macro(resp, 1)
    IN  IF c.panic THEN Panics
        ELSE IF c.x[1].kind = "U64" THEN [NoRet EXCEPT !.end = "ok", !.cost = c.x[1].n]
        ELSE IF c.x[1].kind = "String" THEN [NoRet EXCEPT !.end = "err", !.msg = c.x[1].b]
        ELSE Panics

\* contract_call, delegate_call and static_call read the answer alike
JitApi_contract_call(resp) ==
    LET c == call_macro(resp, 3)
    IN  IF c.panic THEN Panics
        ELSE IF ~assert_u32(c.x[1]).ok \/ ~assert_u64(c.x[2]).ok \/ ~assert_status(c.x[3]).ok
        THEN Panics
        ELSE [NoRet EXCEPT !.end = "ok", !.len = assert_u32(c.x[1]).value,
                           !.cost = assert_u64(c.x[2]).value,
                           !.status = assert_status(c.x[3]).value]

\* create1 and create2 read the answer alike
JitApi_create1(resp) ==
    LET c == call_macro(resp, 3)
    IN  IF c.panic THEN Panics
        ELSE IF c.x[1].kind \notin {"Bytes20", "String"} THEN Panics
        ELSE IF ~assert_u32(c.x[2]).ok \/ ~assert_u64(c.x[3]).ok THEN Panics
        ELSE IF c.x[1].kind = "Bytes20"
        THEN [NoRet EXCEPT !.end = "ok", !.bytes = c.x[1].b,
                           !.len = assert_u32(c.x[2]).value, !.cost = assert_u64(c.x[3]).value]
        ELSE [NoRet EXCEPT !.end = "err", !.msg = c.x[1].b,
                           !.len = assert_u32(c.x[2]).value, !.cost = assert_u64(c.x[3]).value]

JitApi_get_return_data(resp) ==
    LET c == call_macro(resp, 1)
    IN  IF c.panic THEN Panics
        ELSE IF ~assert_bytes(c.x[1]).ok THEN Panics
        ELSE [NoRet EXCEPT !.end = "ok", !.bytes = assert_bytes(c.x[1]).value]

JitApi_emit_log(resp) ==
    LET c == call_macro(resp, 1)
    IN  IF c.panic THEN Panics
        ELSE IF c.x[1].kind = "Nil" THEN [NoRet EXCEPT !.end = "ok"]
        ELSE IF c.x[1].kind = "String" THEN [NoRet EXCEPT !.end = "err", !.msg = c.x[1].b]
        ELSE Panics

\* String::from_utf8_lossy: the characters, with U+FFFD for each byte that
\* is not part of a UTF-8 sequence
RECURSIVE from_utf8_lossy(_)
from_utf8_lossy(bytes) ==
    IF bytes = <<>> THEN <<>>
    ELSE IF bytes[1] < 128 THEN <<bytes[1]>> \o from_utf8_lossy(Tail(bytes))
    ELSE IF bytes[1] >= 194 /\ bytes[1] < 224 /\ Len(bytes) >= 2
            /\ bytes[2] >= 128 /\ bytes[2] < 192
    THEN <<(bytes[1] - 192) * 64 + (bytes[2] - 128)>>
         \o from_utf8_lossy(SubSeq(bytes, 3, Len(bytes)))
    ELSE <<65533>> \o from_utf8_lossy(Tail(bytes))

GoApi_get_bytes32(a) ==
    [NoRet EXCEPT !.end = "ok", !.bytes = a.value, !.cost = a.cost]

GoApi_set_bytes32(a) ==
    IF a.status = "Success" THEN [NoRet EXCEPT !.end = "ok", !.cost = a.cost]
    ELSE [NoRet EXCEPT !.end = "err", !.msg = from_utf8_lossy(a.data)]

\* contract_call, delegate_call and static_call read the answer alike
GoApi_contract_call(a) ==
    [NoRet EXCEPT !.end = "ok", !.len = a.len, !.cost = a.cost,
                  !.status = EvmApiStatus_into(a.status)]

\* create1 and create2 read the answer alike; Bytes20::try_from(output)
\* .unwrap() panics unless the output has 20 bytes
GoApi_create1(a) ==
    IF a.status = "Success"
    THEN IF Len(a.data) = 20
         THEN [NoRet EXCEPT !.end = "ok", !.bytes = a.data, !.len = a.len, !.cost = a.cost]
         ELSE Panics
    ELSE [NoRet EXCEPT !.end = "err", !.msg = from_utf8_lossy(a.data), !.len = a.len,
                       !.cost = a.cost]

GoApi_get_return_data(a) ==
    [NoRet EXCEPT !.end = "ok", !.bytes = a.data]

GoApi_emit_log(a) ==
    IF a.status = "Success" THEN [NoRet EXCEPT !.end = "ok"]
    ELSE [NoRet EXCEPT !.end = "err", !.msg = from_utf8_lossy(a.data)]

EvmApiMethod ==
    {"get_bytes32", "set_bytes32", "contract_call", "delegate_call", "static_call",
     "create1", "create2", "get_return_data", "emit_log"}

\* impl EvmApi for JitApi
JitApi(op, resp) ==
    CASE op = "get_bytes32" -> JitApi_get_bytes32(resp)
      [] op = "set_bytes32" -> JitApi_set_bytes32(resp)
      [] op \in {"contract_call", "delegate_call", "static_call"} -> JitApi_contract_call(resp)
      [] op \in CreateFns -> JitApi_create1(resp)
      [] op = "get_return_data" -> JitApi_get_return_data(resp)
      [] OTHER -> JitApi_emit_log(resp)

\* impl EvmApi for GoApi
GoApi(op, a) ==
    CASE op = "get_bytes32" -> GoApi_get_bytes32(a)
      [] op = "set_bytes32" -> GoApi_set_bytes32(a)
      [] op \in {"contract_call", "delegate_call", "static_call"} -> GoApi_contract_call(a)
      [] op \in CreateFns -> GoApi_create1(a)
      [] op = "get_return_data" -> GoApi_get_return_data(a)
      [] OTHER -> GoApi_emit_log(a)

\* single values the host may put in a relay answer: one of each kind, and
\* four that no ApiValueKind encodes to
Wires ==
    {ApiValue_from([kind |-> "U32", n |-> 3, b |-> <<>>]),
     ApiValue_from([kind |-> "U64", n |-> 9, b |-> <<>>]),
     ApiValue_from([kind |-> "Bytes", n |-> 0, b |-> <<1, 2>>]),
     ApiValue_from([kind |-> "Bytes20", n |-> 0, b |-> Rep(7, 20)]),
     ApiValue_from([kind |-> "Bytes32", n |-> 0, b |-> Rep(8, 32)]),
     ApiValue_from([kind |-> "String", n |-> 0, b |-> <<69, 233>>]),
     ApiValue_from([kind |-> "Nil", n |-> 0, b |-> <<>>]),
     <<7>>, <<1, 0>>, <<5, 128>>, <<>>}

Responses ==
    UNION {[1..n -> Wires] : n \in 0..MaxOuts}

\* what the host may leave in the status and the out-parameters
Answers ==
    [status : {"Success", "Failure"}, value : {Rep(8, 32)},
     data : {<<>>, Rep(7, 20), <<69, 195, 169>>, <<69, 128>>}, len : {0, 3}, cost : {0, 9}]

InitClient ==
    /\ IdleProgram
    /\ IdleStack
    /\ IdleRelay
    /\ IdleCodec
    /\ IdleAux

\* the owning thread sends the host's answer to the worker's call
RelayAnswers(op, resp) ==
    /\ client.phase = "off"
    /\ client' = [client EXCEPT !.api = "jit", !.op = op, !.outs = resp, !.phase = "answered"]
    /\ UNCHANGED <<stackVars, relayVars, codec, progVars, access, evm, forward, pool, sdk>>

\* the host's function returns to the native client
FfiAnswers(op, a) ==
    /\ client.phase = "off"
    /\ client' = [client EXCEPT !.api = "go", !.op = op, !.answer = a, !.phase = "answered"]
    /\ UNCHANGED <<stackVars, relayVars, codec, progVars, access, evm, forward, pool, sdk>>

\* the client turns the answer into the operation's result
ClientReturns ==
    /\ client.phase = "answered"
    /\ client' = [client EXCEPT !.phase = "returned",
                                !.ret = IF client.api = "jit" THEN JitApi(client.op, client.outs)
                                        ELSE GoApi(client.op, client.answer)]
    /\ UNCHANGED <<stackVars, relayVars, codec, progVars, access, evm, forward, pool, sdk>>

NextClient ==
    \/ client.phase = "off" /\ \E op \in EvmApiMethod, resp \in Responses : RelayAnswers(op, resp)
    \/ client.phase = "off" /\ \E op \in EvmApiMethod, a \in Answers : FfiAnswers(op, a)
    \/ ClientReturns

SpecClient ==
    InitClient /\ [][NextClient]_vars

\* the kinds each operation expects, value by value
Expected(op) ==
    CASE op = "get_bytes32" -> <<{"Bytes32"}, {"U64"}>>
      [] op = "set_bytes32" -> <<{"U64", "String"}>>
      [] op \in {"contract_call", "delegate_call", "static_call"} -> <<{"U32"}, {"U64"}, {"Nil", "String"}>>
      [] op \in CreateFns -> <<{"Bytes20", "String"}, {"U32"}, {"U64"}>>
      [] op = "get_return_data" -> <<{"Bytes"}>>
      [] OTHER -> <<{"Nil", "String"}>>

\* the answer has the operation's arity and every value carries an expected tag
Matches(op, resp) ==
    /\ Len(resp) = Len(Expected(op))
    /\ \A i \in 1..Len(resp) :
        IF resp[i] = <<>> THEN FALSE ELSE ApiValueKind_from(resp[i]).kind \in Expected(op)[i]

\* C31: when the relay's answer does not have the operation's arity, or one
\* of its values does not carry a tag the operation expects (or carries no
\* known tag at all), the client panics: it returns neither a value nor a
\* recoverable error.
C31_MismatchPanics ==
    (client.phase = "returned" /\ client.api = "jit" /\ ~Matches(client.op, client.outs))
        => client.ret.end = "panic"

C31_Witness ==
    /\ client.phase = "returned"
    /\ client.api = "jit"
    /\ client.op = "contract_call"
    /\ Len(client.outs) = 3
    /\ client.outs[1] = <<1, 0, 0, 0, 0, 0, 0, 0, 9>>
    /\ client.outs[3] = <<6>>
    /\ client.ret.end = "panic"


\* the operations that may fail at the protocol level, and the three calls
FailOps ==
    {"set_bytes32", "create1", "create2", "emit_log"}

CallOps ==
    {"contract_call", "delegate_call", "static_call"}

\* C32: set_bytes32, create1, create2 and emit_log return a recoverable
\* error, carrying the host's message, exactly when the host's answer has
\* the failure discriminant (a String value in the relay, the status Failure
\* over the foreign-function interface) and a success value otherwise; the
\* three calls never return an error: a reverted call is reported as the
\* outcome kind Revert together with the output length and the cost.
C32_FailureByDiscriminant ==
    client.phase = "returned" =>
        /\ (client.api = "jit" /\ Matches(client.op, client.outs)) =>
            /\ client.op \in FailOps =>
                LET first == ApiValueKind_from(client.outs[1])
                IN  /\ client.ret.end = "err" <=> first.kind = "String"
                    /\ first.kind = "String" => client.ret.msg = first.b
                    /\ first.kind # "String" => client.ret.end = "ok"
            /\ client.op \in CallOps =>
                /\ client.ret.end = "ok"
                /\ client.ret.status =
                    IF ApiValueKind_from(client.outs[3]).kind = "String" THEN "Revert"
                    ELSE "Success"
                /\ client.ret.len = ApiValueKind_from(client.outs[1]).n
                /\ client.ret.cost = ApiValueKind_from(client.outs[2]).n
        /\ client.api = "go" =>
            /\ client.op \in FailOps =>
                /\ client.ret.end = "err" <=> client.answer.status = "Failure"
                /\ (client.answer.status = "Failure" /\ from_utf8(client.answer.data).ok)
                    => client.ret.msg = from_utf8(client.answer.data).chars
                /\ (/\ client.answer.status = "Success"
                    /\ client.op \in CreateFns => Len(client.answer.data) = 20)
                    => client.ret.end = "ok"
            /\ client.op \in CallOps =>
                /\ client.ret.end = "ok"
                /\ client.ret.status =
                    IF client.answer.status = "Failure" THEN "Revert" ELSE "Success"
                /\ client.ret.len = client.answer.len
                /\ client.ret.cost = client.answer.cost

C32_Witness ==
    /\ client.phase = "returned"
    /\ client.api = "jit"
    /\ client.op = "create2"
    /\ client.outs = <<<<5, 69, 195, 169>>, <<0, 0, 0, 0, 3>>, <<1, 0, 0, 0, 0, 0, 0, 0, 9>>>>
    /\ client.ret.end = "err"
    /\ client.ret.msg = <<69, 233>>
    /\ client.ret.len = 3
    /\ client.ret.cost = 9

(***************************************************************************)
(* SpecMemory: the memory accessors.  HostioInfo (stylus/src/env.rs) reads *)
(* and writes the program's linear memory and returns the view's error;    *)
(* JitCallerEnv (jit/src/callerenv.rs) unwraps it.  Pointers and lengths   *)
(* are u32 values, scaled to 0..PtrMax; the view adds them as u64, which   *)
(* cannot overflow.                                                        *)
(***************************************************************************)

\* u32::MAX, scaled
PtrMax ==
    7

\* the size of the linear memory, in bytes
LinSize ==
    4

\* writes made before the memory is read
MaxWrites ==
    1

\* HostioInfo::read_slice: the bytes, or the view's MemoryAccessError
HostioInfo_read_slice(m, ptr, len) ==
    LET r == read_slice(m, ptr, len)
    IN  [end |-> IF r.ok THEN "ok" ELSE "err", data |-> r.data]

\* HostioInfo::write_slice
HostioInfo_write_slice(m, ptr, src) ==
    LET w == write_slice(m, ptr, src)
    IN  [end |-> IF w.ok THEN "ok" ELSE "err", mem |-> w.mem]

\* JitCallerEnv::caller_read_slice: .expect("failed to read")
caller_read_slice(m, ptr, len) ==
    LET r == read_slice(m, ptr, len)
    IN  [end |-> IF r.ok THEN "ok" ELSE "panic", data |-> r.data]

\* JitCallerEnv::caller_write_slice: .unwrap()
caller_write_slice(m, ptr, src) ==
    LET w == write_slice(m, ptr, src)
    IN  [end |-> IF w.ok THEN "ok" ELSE "panic", mem |-> w.mem]

Accessors ==
    {"HostioInfo", "JitCallerEnv"}

\* the slices written
Slices ==
    {<<>>, <<1>>, <<2, 3>>, <<4, 5, 6>>, Rep(7, LinSize)}

InitMemory ==
    /\ IdleProgram
    /\ IdleStack
    /\ IdleRelay
    /\ IdleCodec
    /\ IdleSdk
    /\ IdlePool
    /\ IdleForward
    /\ IdleClient
    /\ IdleEvm
    /\ \E impl \in Accessors, m \in {Rep(0, LinSize), [i \in 1..LinSize |-> 10 + i]} :
        access = [impl |-> impl, mem |-> m, writes |-> 0, last |-> NoAccess, prev |-> NoAccess]

\* the accessor is alive: no access has panicked and the memory was not read
Accessible ==
    /\ access.impl \in Accessors
    /\ access.last.op # "read"
    /\ access.last.end # "panic"

WriteSlice(ptr, src) ==
    /\ Accessible
    /\ access.writes < MaxWrites
    /\ LET w == IF access.impl = "HostioInfo" THEN HostioInfo_write_slice(access.mem, ptr, src)
                ELSE caller_write_slice(access.mem, ptr, src)
       IN  access' = [access EXCEPT
                !.mem = w.mem,
                !.writes = @ + 1,
                !.prev = access.last,
                !.last = [op |-> "write", ptr |-> ptr, len |-> Len(src), src |-> src,
                          end |-> w.end, data |-> <<>>, pre |-> access.mem]]
    /\ UNCHANGED <<stackVars, relayVars, codec, progVars, client, evm, forward, pool, sdk>>

ReadSlice(ptr, len) ==
    /\ Accessible
    /\ LET r == IF access.impl = "HostioInfo" THEN HostioInfo_read_slice(access.mem, ptr, len)
                ELSE caller_read_slice(access.mem, ptr, len)
       IN  access' = [access EXCEPT
                !.prev = access.last,
                !.last = [op |-> "read", ptr |-> ptr, len |-> len, src |-> <<>>,
                          end |-> r.end, data |-> r.data, pre |-> access.mem]]
    /\ UNCHANGED <<stackVars, relayVars, codec, progVars, client, evm, forward, pool, sdk>>

NextMemory ==
    \/ \E ptr \in 0..PtrMax, src \in Slices : WriteSlice(ptr, src)
    \/ \E ptr \in 0..PtrMax, len \in 0..PtrMax : ReadSlice(ptr, len)

SpecMemory ==
    InitMemory /\ [][NextMemory]_vars

\* C33: a read_slice(ptr, len) whose range [ptr, ptr+len) is not fully
\* inside the memory returns a bounds error: it does not panic and it
\* returns no bytes, for every ptr and len, including those whose sum
\* exceeds the pointer width.
C33_ReadOutOfBoundsFails ==
    (access.last.op = "read" /\ access.last.ptr + access.last.len > Len(access.last.pre))
        => (access.last.end = "err" /\ access.last.data = <<>>)

\* C34: for every slice s and offset p with [p, p+len(s)) inside the memory,
\* write_slice(p, s) succeeds and changes no byte outside that range, and a
\* following read_slice(p, len(s)) returns s.
C34_WriteReadRoundTrip ==
    /\ (access.last.op = "write" /\ access.last.ptr + access.last.len <= Len(access.last.pre))
        => /\ access.last.end = "ok"
           /\ Len(access.mem) = Len(access.last.pre)
           /\ \A i \in 1..Len(access.mem) :
                (i <= access.last.ptr \/ i > access.last.ptr + access.last.len)
                    => access.mem[i] = access.last.pre[i]
    /\ (/\ access.last.op = "read"
        /\ access.prev.op = "write"
        /\ access.prev.ptr + access.prev.len <= Len(access.prev.pre)
        /\ access.last.ptr = access.prev.ptr
        /\ access.last.len = access.prev.len)
        => (access.last.end = "ok" /\ access.last.data = access.prev.src)

C34_Witness ==
    /\ access.last.op = "read"
    /\ access.prev.op = "write"
    /\ access.prev.src = <<4, 5, 6>>
    /\ access.prev.ptr = 1
    /\ access.prev.pre = <<11, 12, 13, 14>>
    /\ access.last.ptr = 1
    /\ access.last.len = 3
    /\ access.last.data = <<4, 5, 6>>
    /\ access.mem = <<11, 4, 5, 6>>

(***************************************************************************)
(* SpecEvmData: the EvmData of a Program (user-host/src/user.rs).  The     *)
(* embedding host builds it once (jit/src/user/mod.rs, evm_data_impl)      *)
(* and the host functions read its fields; calls and creates store the     *)
(* length of the return data in its field return_data_len.                 *)
(***************************************************************************)

\* the fields the embedding host passes
ContextFields ==
    {"block_basefee", "block_chainid", "block_coinbase", "block_difficulty",
     "block_gas_limit", "block_number", "block_timestamp", "contract_address",
     "msg_sender", "msg_value", "tx_gas_price", "tx_origin", "reentrant"}

\* evm_data_impl: the values read from the stack, and return_data_len: 0
evm_data_impl(values) ==
    [f \in ContextFields \cup {"return_data_len"} |->
        IF f = "return_data_len" THEN 0 ELSE values[f]]

\* a call that also counts itself as a reentrant one
user_host__call_contract_reenters(d, outs_len) ==
    [d EXCEPT !.return_data_len = outs_len, !.reentrant = @ + 1]

\* user_host__call_contract, delegate_call_contract, static_call_contract,
\* create1 and create2: program.evm_data.return_data_len = outs_len
user_host__call_contract(d, outs_len) ==
    [d EXCEPT !.return_data_len = outs_len]

\* user_host__return_data_size
user_host__return_data_size(d) ==
    d.return_data_len

\* user_host__block_basefee and the other context functions: the field
user_host__context(d, f) ==
    d[f]

\* two transactions' worth of context values
GoValues ==
    {[f \in ContextFields |-> 17], [f \in ContextFields |-> IF f = "reentrant" THEN 0 ELSE 40]}

\* lengths of return data the client reports
OutsLens ==
    {0, 3, 5, 9}

InitEvmData ==
    /\ IdleProgram
    /\ IdleStack
    /\ IdleRelay
    /\ IdleCodec
    /\ IdleSdk
    /\ IdlePool
    /\ IdleForward
    /\ IdleClient
    /\ IdleAccess
    /\ \E values \in GoValues :
        evm = [created |-> evm_data_impl(values), data |-> evm_data_impl(values),
               last |-> [f |-> "none", value |-> 0]]

EvmCall(f, outs_len) ==
    /\ evm' = [evm EXCEPT !.data = user_host__call_contract(evm.data, outs_len),
                          !.last = [f |-> f, value |-> outs_len]]
    /\ UNCHANGED <<stackVars, relayVars, codec, progVars, client, access, forward, pool, sdk>>

EvmContext(f) ==
    /\ evm' = [evm EXCEPT !.last = [f |-> f, value |-> user_host__context(evm.data, f)]]
    /\ UNCHANGED <<stackVars, relayVars, codec, progVars, client, access, forward, pool, sdk>>

\* account_load_bytes32, account_store_bytes32: no use of evm_data
EvmStorage(f) ==
    /\ evm' = [evm EXCEPT !.last = [f |-> f, value |-> 0]]
    /\ UNCHANGED <<stackVars, relayVars, codec, progVars, client, access, forward, pool, sdk>>

EvmReturnDataSize ==
    /\ evm' = [evm EXCEPT !.last = [f |-> "return_data_size",
                                    value |-> user_host__return_data_size(evm.data)]]
    /\ UNCHANGED <<stackVars, relayVars, codec, progVars, client, access, forward, pool, sdk>>

NextEvmData ==
    \/ \E f \in CallFns \cup CreateFns, outs_len \in OutsLens : EvmCall(f, outs_len)
    \/ \E f \in ContextFields : EvmContext(f)
    \/ \E f \in {"account_load_bytes32", "account_store_bytes32"} : EvmStorage(f)
    \/ EvmReturnDataSize

SpecEvmData ==
    InitEvmData /\ [][NextEvmData]_vars

\* C35 as stated: the EvmData of a Program is created once and no host call
\* modifies any of its fields during the run.
C35_SnapshotReadOnly ==
    evm.data = evm.created

\* C35, amended: no host call modifies a field of the EvmData other than
\* return_data_len: the block, message and transaction values and the
\* reentrancy counter are those the EvmData was created with at every point
\* of a run, also after calls, creates and storage operations, and the
\* context functions return them; return_data_len is set by every call and
\* create.
C35_ContextFieldsFixed ==
    /\ \A f \in ContextFields : evm.data[f] = evm.created[f]
    /\ evm.last.f \in ContextFields => evm.last.value = evm.created[evm.last.f]
    /\ evm.last.f \in CallFns \cup CreateFns => evm.data.return_data_len = evm.last.value

C35_Witness ==
    /\ evm.last.f = "reentrant"
    /\ evm.data.return_data_len = 5
    /\ evm.created.return_data_len = 0
    /\ evm.last.value = evm.created.reentrant

(***************************************************************************)
(* SpecForward: one call host function (call_contract, delegate_call_      *)
(* contract, static_call_contract) of each engine, with the cost the       *)
(* client reports chosen relative to the gas that was forwarded to it.     *)
(***************************************************************************)

\* how much of the forwarded gas the callee used
CostKinds ==
    {"none", "half", "all_but_one", "all", "more"}

\* the cost the client reports for forwarded gas fwd
CostOf(k, fwd) ==
    CASE k = "none" -> 0
      [] k = "half" -> fwd \div 2
      [] k = "all_but_one" -> saturating_sub(fwd, 1)
      [] k = "all" -> fwd
      [] OTHER -> IF fwd < U64Max THEN fwd + 1 ELSE U64Max

\* the ink the program holds when it makes the call
ForwardInk ==
    {179, 180, 200, 1000, 7777, 100000, U64Max}

\* the gas (UserHost) or ink (the older host functions) the program offers
ForwardGas ==
    {0, 1, 26, 1000, 25999, U64Max}

InitForward ==
    /\ IdleProgram
    /\ IdleStack
    /\ IdleRelay
    /\ IdleCodec
    /\ IdleSdk
    /\ IdlePool
    /\ IdleClient
    /\ IdleAccess
    /\ IdleEvm
    /\ \E cfg \in Configs, ink \in ForwardInk :
        forward = [phase |-> "ready", cfg |-> cfg, pre |-> MeterData(ink, 0), e |-> "none",
                   f |-> "none", gas |-> 0, k |-> "none", fwd |-> 0, cost |-> 0, ev |-> <<>>,
                   err |-> "", post |-> MeterData(ink, 0), at_call |-> MeterData(ink, 0)]

\* the host function runs: what it forwards does not depend on the answer,
\* and the client's answer costs CostOf(k, the gas forwarded)
ForwardCall(e, f, gas, k) ==
    /\ forward.phase = "ready"
    /\ LET a == [A0 EXCEPT !.p2 = 32, !.q2 = 64, !.len = 4, !.gas = gas]
           c0 == Ctx(forward.pre, Rep(0, MemSize), <<>>, 0)
           body == StepsOf(e, f, a, forward.cfg, <<1, 2, 3, 4>>)
           fwd == Exec(e, forward.cfg, ApiFree, c0, body, 1).fwd
           r == ApiAnswer(CostOf(k, fwd), 4, TRUE)
           c == Exec(e, forward.cfg, r, c0, body, 1)
       IN  forward' = [forward EXCEPT !.phase = "done", !.e = e, !.f = f, !.gas = gas,
                                      !.k = k, !.fwd = c.fwd, !.cost = r.cost, !.ev = c.ev,
                                      !.err = c.err, !.post = c.m, !.at_call = c.at_call]
    /\ UNCHANGED <<stackVars, relayVars, codec, progVars, client, access, evm, pool, sdk>>

NextForward ==
    \E e \in Engines, f \in CallFns, gas \in ForwardGas, k \in CostKinds :
        ForwardCall(e, f, gas, k)

SpecForward ==
    InitForward /\ [][NextForward]_vars

\* C36: in a call host function, if the cost the client reports does not
\* exceed the gas that was forwarded to it, the buy_gas(cost) after the call
\* succeeds: the forwarded gas was clamped to the caller's gas left, so a
\* call that stays within its forwarded gas never drives the caller out of
\* ink.
C36_CostWithinForwardedIsPaid ==
    (/\ forward.phase = "done"
     /\ \E i \in 1..Len(forward.ev) : forward.ev[i].k = "api"
     /\ forward.cost <= forward.fwd)
        => /\ \A i \in 1..Len(forward.ev) : forward.ev[i].k = "cost" => forward.ev[i].ok
           /\ \E i \in 1..Len(forward.ev) : forward.ev[i].k = "cost"
           /\ forward.err # "OutOfInk"
           /\ forward.post.ink_status = 0
           /\ forward.post.ink_left
                = forward.at_call.ink_left - gas_to_ink(forward.cfg, forward.cost)

C36_Witness ==
    /\ forward.phase = "done"
    /\ forward.e = "userhost"
    /\ forward.cfg.ink_price = 3333
    /\ forward.gas = U64Max
    /\ forward.fwd > 0
    /\ forward.fwd = gas_left(forward.cfg, forward.at_call)
    /\ forward.cost = forward.fwd
    /\ forward.err = ""
    /\ forward.post.ink_left < 4

(***************************************************************************)
(* DynamicObjectPool (go-stub/src/value.rs): the objects map and the stack *)
(* of freed ids.  objects is a function from the live ids to the objects;  *)
(* free_ids is a sequence whose last element is the top of the stack.      *)
(* An Option is a sequence of length at most one.                          *)
(***************************************************************************)
DYNAMIC_OBJECT_ID_BASE ==
    10000

MaxObjects ==
    3

DynamicObjectPool_default ==
    [objects |-> <<>>, free_ids |-> <<>>]

Live(p) ==
    DOMAIN p.objects

HashMap_insert(objects, id, object) ==
    [i \in (DOMAIN objects) \cup {id} |-> IF i = id THEN object ELSE objects[i]]

HashMap_remove(objects, id) ==
    [i \in (DOMAIN objects) \ {id} |-> objects[i]]

DynamicObjectPool_insert_by_len(p, object) ==
    LET id == DYNAMIC_OBJECT_ID_BASE + Cardinality(DOMAIN p.objects)
    IN  [pool |-> [objects |-> HashMap_insert(p.objects, id, object),
                   free_ids |-> p.free_ids],
         id |-> id]

DynamicObjectPool_insert(p, object) ==
    LET n == Len(p.free_ids)
        id == IF n > 0
              THEN p.free_ids[n]
              ELSE DYNAMIC_OBJECT_ID_BASE + Cardinality(DOMAIN p.objects)
        rest == IF n > 0 THEN SubSeq(p.free_ids, 1, n - 1) ELSE p.free_ids
    IN  [pool |-> [objects |-> HashMap_insert(p.objects, id, object),
                   free_ids |-> rest],
         id |-> id]

DynamicObjectPool_get(p, id) ==
    IF id \in DOMAIN p.objects THEN <<p.objects[id]>> ELSE <<>>

DynamicObjectPool_remove_keeps(p, id) ==
    [pool |-> p, res |-> DynamicObjectPool_get(p, id)]

DynamicObjectPool_remove(p, id) ==
    IF id \in DOMAIN p.objects
    THEN [pool |-> [objects |-> HashMap_remove(p.objects, id),
                    free_ids |-> Append(p.free_ids, id)],
          res |-> <<p.objects[id]>>]
    ELSE [pool |-> p, res |-> <<>>]

PoolOf(s) ==
    [objects |-> s.objects, free_ids |-> s.free_ids]

PoolIds ==
    {0, 7} \cup (DYNAMIC_OBJECT_ID_BASE .. DYNAMIC_OBJECT_ID_BASE + MaxObjects)

Uint8Array(by) ==
    [kind |-> "Uint8Array", ids |-> <<>>, by |-> by]

InitPool ==
    /\ IdleProgram
    /\ IdleStack
    /\ IdleRelay
    /\ IdleCodec
    /\ IdleSdk
    /\ IdleClient
    /\ IdleAccess
    /\ IdleEvm
    /\ IdleForward
    /\ pool = [objects |-> <<>>, free_ids |-> <<>>, last |-> NoPoolOp,
               phase |-> "pool", object_ids |-> <<>>, stylus_result |-> <<>>,
               sent |-> <<>>, err |-> ""]

PoolInsert(object) ==
    /\ pool.phase = "pool"
    /\ Cardinality(Live(pool)) < MaxObjects
    /\ LET r == DynamicObjectPool_insert(PoolOf(pool), object)
       IN  pool' = [pool EXCEPT !.objects = r.pool.objects,
                                !.free_ids = r.pool.free_ids,
                                !.last = [op |-> "insert", id |-> r.id,
                                          res |-> <<>>, pre |-> PoolOf(pool)]]
    /\ UNCHANGED <<stackVars, relayVars, codec, progVars, client, access, evm, forward, sdk>>

PoolRemove(id) ==
    /\ pool.phase = "pool"
    /\ LET r == DynamicObjectPool_remove(PoolOf(pool), id)
       IN  pool' = [pool EXCEPT !.objects = r.pool.objects,
                                !.free_ids = r.pool.free_ids,
                                !.last = [op |-> "remove", id |-> id,
                                          res |-> r.res, pre |-> PoolOf(pool)]]
    /\ UNCHANGED <<stackVars, relayVars, codec, progVars, client, access, evm, forward, sdk>>

NextPool ==
    \/ \E by \in {"go", "relay"} : PoolInsert(Uint8Array(by))
    \/ \E id \in PoolIds : PoolRemove(id)

SpecPool ==
    InitPool /\ [][NextPool]_vars

(* C37: insert never returns an id that is mapped to a live object, so     *)
(* every live object keeps its value across an insert; every id insert     *)
(* returns is at least DYNAMIC_OBJECT_ID_BASE; and removing an id that is  *)
(* not present returns None and leaves the objects and the free-id list    *)
(* unchanged.                                                              *)
C37_InsertFreshRemoveAbsent ==
    /\ pool.last.op = "insert" =>
          /\ pool.last.id \notin Live(pool.last.pre)
          /\ pool.last.id >= DYNAMIC_OBJECT_ID_BASE
          /\ \A i \in Live(pool.last.pre) :
                i \in Live(pool) /\ pool.objects[i] = pool.last.pre.objects[i]
    /\ (pool.last.op = "remove" /\ pool.last.id \notin Live(pool.last.pre)) =>
          /\ pool.last.res = <<>>
          /\ PoolOf(pool) = pool.last.pre

C37_Witness ==
    /\ pool.last.op = "insert"
    /\ Live(pool.last.pre) # {}
    /\ Len(pool.last.pre.free_ids) > 0
    /\ pool.last.id < DYNAMIC_OBJECT_ID_BASE + Cardinality(Live(pool.last.pre))

(***************************************************************************)
(* SpecObjects: the Call arm of exec_wasm and the object pool              *)
(* (jit/src/user/evm_api.rs:350-390).  The arm puts the arguments into the *)
(* pool, resumes the Go side, which uses the same pool as it likes and     *)
(* leaves a reference to its result array in stylus_result, and takes the  *)
(* result array and its values out of the pool again.  Every object is     *)
(* [kind, ids, by]: ids the elements of a ValueArray, by who inserted it.  *)
(***************************************************************************)
FunctionWrapper ==
    [kind |-> "FunctionWrapper", ids |-> <<>>, by |-> "go"]

ValueArray(ids) ==
    [kind |-> "ValueArray", ids |-> ids, by |-> "go"]

\* for arg in args { js.pool.insert(Uint8Array(arg)) }: n arguments
RECURSIVE CallArm_insert_args(_, _)
CallArm_insert_args(p, n) ==
    IF n = 0 THEN [pool |-> p, object_ids |-> <<>>]
    ELSE LET before == CallArm_insert_args(p, n - 1)
             r == DynamicObjectPool_insert(before.pool, Uint8Array("relay"))
         IN  [pool |-> r.pool, object_ids |-> Append(before.object_ids, r.id)]

\* for out in output { js.pool.remove(id) must be a Uint8Array }: stops at
\* the first element that is none
RECURSIVE CallArm_remove_outs(_, _)
CallArm_remove_outs(p, ids) ==
    IF ids = <<>> THEN [pool |-> p, ok |-> TRUE]
    ELSE LET r == DynamicObjectPool_remove(p, Head(ids))
         IN  IF r.res = <<>> \/ r.res[1].kind # "Uint8Array"
             THEN [pool |-> r.pool, ok |-> FALSE]
             ELSE CallArm_remove_outs(r.pool, Tail(ids))

\* a Call arm that leaves its arguments in the pool
CallArm_keeps_args(p, ids) ==
    p

\* for id in object_ids { pool.remove(id) }
RECURSIVE CallArm_remove_args(_, _)
CallArm_remove_args(p, ids) ==
    IF ids = <<>> THEN p
    ELSE CallArm_remove_args(DynamicObjectPool_remove(p, Head(ids)).pool, Tail(ids))

\* the arm after sp.resume has returned: what is left of the pool, and the
\* error of the bail! that ended it, if any
CallArm_after_resume(p, taken, object_ids) ==
    IF taken = <<>>
    THEN [pool |-> p, err |-> "no return value", output |-> <<>>]
    ELSE LET a == DynamicObjectPool_remove(p, taken[1])
         IN  IF a.res = <<>> \/ a.res[1].kind # "ValueArray"
             THEN [pool |-> a.pool, err |-> "bad return value", output |-> <<>>]
             ELSE LET b == CallArm_remove_outs(a.pool, a.res[1].ids)
                  IN  IF ~b.ok
                      THEN [pool |-> b.pool, err |-> "bad inner return value",
                            output |-> a.res[1].ids]
                      ELSE [pool |-> CallArm_remove_args(b.pool, object_ids),
                            err |-> "", output |-> a.res[1].ids]

\* pools the Go side has set up before the first request: the host function
\* wrapper is an object of the pool
GoPools ==
    { [objects |-> (DYNAMIC_OBJECT_ID_BASE :> FunctionWrapper), free_ids |-> <<>>],
      [objects |-> ((DYNAMIC_OBJECT_ID_BASE + 1) :> FunctionWrapper),
       free_ids |-> <<DYNAMIC_OBJECT_ID_BASE>>] }

ArgCounts ==
    {0, 1, 2}

InitObjects ==
    /\ IdleProgram
    /\ IdleStack
    /\ IdleRelay
    /\ IdleCodec
    /\ IdleSdk
    /\ IdleClient
    /\ IdleAccess
    /\ IdleEvm
    /\ IdleForward
    /\ \E g \in GoPools :
          pool = [objects |-> g.objects, free_ids |-> g.free_ids, last |-> NoPoolOp,
                  phase |-> "idle", object_ids |-> <<>>, stylus_result |-> <<>>,
                  sent |-> <<>>, err |-> ""]

\* The arm up to sp.resume: arguments inserted, function looked up, pending
\* event set.
CallArmResumes(n, func) ==
    /\ pool.phase = "idle"
    /\ Len(pool.sent) < MaxCalls
    /\ LET r == CallArm_insert_args(PoolOf(pool), n)
           f == DynamicObjectPool_get(r.pool, func)
           found == f # <<>> /\ f[1].kind = "FunctionWrapper"
       IN  pool' = [pool EXCEPT !.objects = r.pool.objects,
                                !.free_ids = r.pool.free_ids,
                                !.object_ids = r.object_ids,
                                !.stylus_result = <<>>,
                                !.last = NoPoolOp,
                                !.phase = IF found THEN "resumed" ELSE "bailed",
                                !.err = IF found THEN "" ELSE "missing func"]
    /\ UNCHANGED <<stackVars, relayVars, codec, progVars, client, access, evm, forward, sdk>>

\* the Go side, while resumed and before it stores its result, creates an
\* object
GoInserts(object) ==
    /\ pool.phase = "resumed"
    /\ pool.stylus_result = <<>>
    /\ Cardinality(Live(pool)) < MaxObjects
    /\ LET r == DynamicObjectPool_insert(PoolOf(pool), object)
       IN  pool' = [pool EXCEPT !.objects = r.pool.objects,
                                !.free_ids = r.pool.free_ids]
    /\ UNCHANGED <<stackVars, relayVars, codec, progVars, client, access, evm, forward, sdk>>

\* the Go side, while resumed and before it stores its result, releases an
\* object
GoRemoves(id) ==
    /\ pool.phase = "resumed"
    /\ pool.stylus_result = <<>>
    /\ LET r == DynamicObjectPool_remove(PoolOf(pool), id)
       IN  pool' = [pool EXCEPT !.objects = r.pool.objects,
                                !.free_ids = r.pool.free_ids]
    /\ UNCHANGED <<stackVars, relayVars, codec, progVars, client, access, evm, forward, sdk>>

\* the Go side stores a reference as the result of the host function
GoSetsResult(id) ==
    /\ pool.phase = "resumed"
    /\ pool.stylus_result = <<>>
    /\ pool' = [pool EXCEPT !.stylus_result = <<id>>]
    /\ UNCHANGED <<stackVars, relayVars, codec, progVars, client, access, evm, forward, sdk>>

\* sp.resume returns and the arm reads the result back; when nothing bails
\* the response is sent
CallArmResponds ==
    /\ pool.phase = "resumed"
    /\ LET r == CallArm_after_resume(PoolOf(pool), pool.stylus_result, pool.object_ids)
       IN  pool' = [pool EXCEPT !.objects = r.pool.objects,
                                !.free_ids = r.pool.free_ids,
                                !.stylus_result = <<>>,
                                !.phase = IF r.err = "" THEN "idle" ELSE "bailed",
                                !.err = r.err,
                                !.sent = IF r.err = "" THEN Append(@, "outs") ELSE @,
                                !.last = [op |-> IF r.err = "" THEN "respond" ELSE "bail",
                                          id |-> IF pool.stylus_result = <<>> THEN 0
                                                 ELSE pool.stylus_result[1],
                                          res |-> r.output,
                                          pre |-> PoolOf(pool)]]
    /\ UNCHANGED <<stackVars, relayVars, codec, progVars, client, access, evm, forward, sdk>>

\* what the Go side may put into the pool: at most one result array at a time
GoObjects ==
    {Uint8Array("go")}
    \cup (IF \E i \in Live(pool) : pool.objects[i].kind = "ValueArray" THEN {}
          ELSE {ValueArray(ids) : ids \in {<<>>} \cup {<<i>> : i \in Live(pool)}
                                   \cup {<<i, j>> : i, j \in Live(pool)}})

NextObjects ==
    \/ \E n \in ArgCounts :
          \E func \in {DYNAMIC_OBJECT_ID_BASE, DYNAMIC_OBJECT_ID_BASE + 1} :
              CallArmResumes(n, func)
    \/ pool.phase = "resumed" /\ \E object \in GoObjects : GoInserts(object)
    \/ \E id \in Live(pool) : GoRemoves(id)
    \/ \E id \in Live(pool) \cup {0} : GoSetsResult(id)
    \/ CallArmResponds

SpecObjects ==
    InitObjects /\ [][NextObjects]_vars

\* C38: when the Call arm has sent the response, every object it inserted
\* for the request's arguments, the result array and the result values it
\* read back are out of the pool; after any number of served calls no object
\* the relay inserted is in the pool.
C38_RelayLeavesNothing ==
    /\ pool.last.op = "respond" =>
          /\ \A k \in 1..Len(pool.object_ids) : pool.object_ids[k] \notin Live(pool)
          /\ pool.last.id \notin Live(pool)
          /\ \A k \in 1..Len(pool.last.res) : pool.last.res[k] \notin Live(pool)
    /\ pool.phase = "idle" =>
          \A i \in Live(pool) : pool.objects[i].by # "relay"

C38_Witness ==
    /\ pool.last.op = "respond"
    /\ Len(pool.sent) = 2
    /\ Len(pool.object_ids) = 2
    /\ Len(pool.last.res) = 1
    /\ pool.object_ids[1] \in Live(pool.last.pre)
    /\ pool.last.pre.objects[pool.object_ids[1]].by = "go"

(***************************************************************************)
(* The worker after exec_wasm has returned (checked under                  *)
(* SpecRelayAbandoned)                                                     *)
(***************************************************************************)
\* the worker is in a send or in the recv of JitApi::call
AtChannel ==
    worker.pc \in {"send_call", "send_panic", "send_done", "recv"}

\* C39: once exec_wasm has returned, a worker that is sending a request,
\* Panic or Done, or waiting for a response, whether it was there already or
\* gets there later, can leave that operation only by failing, and does fail
\* and terminate: it never stays blocked on the channels.
C39_AbandonedWorkerTerminates ==
    /\ [][(owner.pc = "returned" /\ AtChannel)
            => worker'.pc \in {worker.pc, "panicked"}]_vars
    /\ (owner.pc = "returned" /\ AtChannel) ~> (worker.pc = "panicked")

C39_Witness ==
    /\ owner.pc = "returned"
    /\ owner.result.error = "Timeout"
    /\ owner.served = 0
    /\ worker.pc = "panicked"
    /\ worker.calls = 1
    /\ worker.got = 0

(***************************************************************************)
(* SpecSdk: the program-side SDK (langs/rust/src/contract.rs) and the      *)
(* static CACHED_RETURN_DATA_SIZE.  sdk.cache is that Option, sdk.host_len *)
(* the host's evm_data.return_data_len, which every call and create host   *)
(* function sets to the length of the data the callee left.                *)
(***************************************************************************)
\* partial_return_data_impl(offset, size, full_size) against a host whose
\* return data has length len; size is an Option
partial_return_data_impl(len, offset, size, full_size) ==
    LET from == IF offset > full_size THEN full_size ELSE offset
        remaining_size == full_size - from
        wanted == IF size = <<>> THEN remaining_size ELSE size[1]
        allocated_len == IF wanted > remaining_size THEN remaining_size ELSE wanted
    IN  IF allocated_len > 0 THEN return_data_part(len, from, allocated_len) ELSE <<>>

\* return_data_len(): the cached size when there is one, otherwise
\* hostio::return_data_size(), which is then cached
sdk_return_data_len(s) ==
    IF s.cache # <<>> THEN [len |-> s.cache[1], cache |-> s.cache]
    ELSE [len |-> s.host_len, cache |-> <<s.host_len>>]

\* Call::call: the host function stores the callee's data and writes its
\* length to outs_len; the length is cached and the wanted part read
Call_call(s, status, outs_len, offset, size) ==
    [s EXCEPT !.host_len = outs_len,
              !.cache = <<outs_len>>,
              !.last = [op |-> "call", offset |-> offset, size |-> size,
                        full |-> outs_len, status |-> status,
                        data |-> partial_return_data_impl(outs_len, offset, size, outs_len)]]

\* create: create1/create2 store the revert data (none on success) and
\* write its length; the revert data is read when the address is zero
sdk_create(s, ok, revert_data_len) ==
    [s EXCEPT !.host_len = revert_data_len,
              !.last = [op |-> "create", offset |-> 0, size |-> <<>>,
                        full |-> revert_data_len,
                        status |-> IF ok THEN 0 ELSE 1,
                        data |-> IF ok THEN <<>>
                                 ELSE return_data_part(revert_data_len, 0, revert_data_len)]]

\* partial_return_data(offset, size)
partial_return_data(s, offset, size) ==
    LET r == sdk_return_data_len(s)
    IN  [s EXCEPT !.cache = r.cache,
                  !.last = [op |-> "partial_return_data", offset |-> offset,
                            size |-> <<size>>, full |-> r.len, status |-> 0,
                            data |-> partial_return_data_impl(s.host_len, offset,
                                                              <<size>>, r.len)]]

ReturnLens ==
    {0, 1, 2, 4}

Offsets ==
    {0, 1, 3}

Sizes ==
    {<<>>, <<0>>, <<2>>, <<4>>}

\* the program starts: nothing cached, and EvmData is built with
\* return_data_len: 0
InitSdk ==
    /\ IdleProgram
    /\ IdleStack
    /\ IdleRelay
    /\ IdleCodec
    /\ IdleClient
    /\ IdleAccess
    /\ IdleEvm
    /\ IdleForward
    /\ IdlePool
    /\ sdk = [phase |-> "run", cache |-> <<>>, host_len |-> 0, last |-> NoSdkOp]

SdkCall(status, outs_len, offset, size) ==
    /\ sdk.phase = "run"
    /\ sdk' = Call_call(sdk, status, outs_len, offset, size)
    /\ UNCHANGED <<stackVars, relayVars, codec, progVars, client, access, evm, forward, pool>>

SdkCreate(ok, revert_data_len) ==
    /\ sdk.phase = "run"
    /\ sdk' = sdk_create(sdk, ok, revert_data_len)
    /\ UNCHANGED <<stackVars, relayVars, codec, progVars, client, access, evm, forward, pool>>

SdkPartialReturnData(offset, size) ==
    /\ sdk.phase = "run"
    /\ sdk' = partial_return_data(sdk, offset, size)
    /\ UNCHANGED <<stackVars, relayVars, codec, progVars, client, access, evm, forward, pool>>

NextSdk ==
    \/ \E status \in {0, 1} : \E outs_len \in ReturnLens :
          \E offset \in Offsets : \E size \in Sizes :
              SdkCall(status, outs_len, offset, size)
    \/ \E ok \in BOOLEAN : \E revert_data_len \in (IF ok THEN {0} ELSE ReturnLens) :
          SdkCreate(ok, revert_data_len)
    \/ \E offset \in Offsets : \E size \in {0, 2, 4} : SdkPartialReturnData(offset, size)

SpecSdk ==
    InitSdk /\ [][NextSdk]_vars

\* C40: after any sequence of Call::call, create and partial_return_data,
\* the cached return-data size, when present, equals the host's current
\* return-data length, so that partial_return_data reads with the length
\* return_data_size would give.
C40_CachedSizeIsCurrent ==
    /\ sdk.cache # <<>> => sdk.cache[1] = sdk.host_len
    /\ sdk.last.op = "partial_return_data" => sdk.last.full = sdk.host_len


=============================================================================
